---- MODULE Spec2Model ----
(***************************************************************************)
(* A model of the text-format value decoder of PyGreSQL (pginternal.c):    *)
(* cast_array, cast_record and cast_hstore with the scalar casters they    *)
(* call, as state machines that advance one parsing step at a time.        *)
(*                                                                         *)
(* A C string is a sequence of one-character strings.  Positions are       *)
(* 1-based: the C pointer s is the index s, and the C pointer end is the   *)
(* index Len(str) + 1.  The byte at index end is the NUL terminator that   *)
(* the callers' buffers carry (a PyBytes buffer, a PQgetvalue cell); the   *)
(* bytes after it are not part of any object: what a read finds there is   *)
(* chosen nondeterministically (tail), and a read after the last modelled  *)
(* byte is a memory fault.                                                 *)
(***************************************************************************)
EXTENDS Integers, Sequences, FiniteSets, TLC

VARIABLES arr, rec, hs, mod, qry, conn, lo, source, simple

vars == <<arr, rec, hs, mod, qry, conn, lo, source, simple>>

(***************************************************************************)
(* Program constants                                                       *)
(***************************************************************************)
PYGRES_INT == 1
PYGRES_LONG == 2
PYGRES_FLOAT == 3
PYGRES_DECIMAL == 4
PYGRES_MONEY == 5
PYGRES_BOOL == 6
PYGRES_TEXT == 8
PYGRES_BYTEA == 9
PYGRES_JSON == 10
PYGRES_OTHER == 11
PYGRES_ARRAY == 16
MAX_ARRAY_DEPTH == 16
BUF_SIZE == 64

pg_encoding_utf8 == "utf8"
pg_encoding_latin1 == "latin1"
pg_encoding_ascii == "ascii"

(***************************************************************************)
(* Bounds of the model                                                     *)
(***************************************************************************)
MaxRaw == 3
MaxBody == 4
MaxNest == 17
MaxFields == 3
MaxPairs == 2
TailLen == 1

(***************************************************************************)
(* Bytes and small helpers                                                 *)
(***************************************************************************)
NUL == "NUL"
FAULT == "FAULT"
HighByte == "0xFF"
NULLPTR == "NULL_POINTER"

Max(a, b) == IF a > b THEN a ELSE b
Min(a, b) == IF a < b THEN a ELSE b

Range(q) == {q[i] : i \in 1..Len(q)}

Strings(A, n) == UNION {[1..k -> A] : k \in 0..n}

RECURSIVE Repeat(_, _)
Repeat(c, n) == IF n <= 0 THEN <<>> ELSE <<c>> \o Repeat(c, n - 1)

Digits == <<"0", "1", "2", "3", "4", "5", "6", "7", "8", "9">>

IsDigit(c) == \E i \in 1..10 : Digits[i] = c

DigitVal(c) == (CHOOSE i \in 1..10 : Digits[i] = c) - 1

Lower(c) ==
    CASE c = "N" -> "n" [] c = "U" -> "u" [] c = "L" -> "l" [] OTHER -> c

(***************************************************************************)
(* Python objects.  A leaf object is a record with one field naming its    *)
(* type; a list under construction lives in the heap and is referred to    *)
(* by [ref |-> id].                                                        *)
(***************************************************************************)
PyNone == [none |-> TRUE]
PyInt(n) == [int |-> n]
PyText(q) == [text |-> q]
PyBytes(q) == [bytes |-> q]
PyBool(b) == [bool |-> b]
PyRef(id) == [ref |-> id]
PyList(q) == [list |-> q]
PyCast(f, x) == [cast |-> f, arg |-> x]
PyFloat(q) == [float |-> q]
PyUnhex(q) == [unhex |-> q]
PyHooked(f, x, oid) == [cast |-> f, arg |-> x, oid |-> oid]

IsRef(x) == DOMAIN x = {"ref"}

\* The outcome of a call that creates an object: the object, or the
\* exception that is set when NULL is returned.
\* calls lists the calls of Python callables that were made on the way.
Ok(x) == [ok |-> TRUE, obj |-> x, exc |-> "none", calls |-> <<>>]
Raise(e) == [ok |-> FALSE, obj |-> PyNone, exc |-> e, calls |-> <<>>]

(***************************************************************************)
(* The global variables of the module (mod) and the type of a column       *)
(***************************************************************************)
\* pgmodule.c, lines 74-84: decimal and jsondecode are NULL or a callable,
\* decimal_point is a byte, the three flags are C ints.
ModuleInit ==
    [decimal |-> NULLPTR, jsondecode |-> NULLPTR, decimal_point |-> ".",
     bool_as_text |-> 0, array_as_text |-> 0, bytea_escaped |-> 0]

\* The oids that get_type names; an oid is written by its name in the
\* catalog.
IntOids == {"INT2OID", "INT4OID", "CIDOID", "OIDOID", "XIDOID"}
FloatOids == {"FLOAT4OID", "FLOAT8OID"}
JsonOids == {"JSONOID", "JSONBOID"}
TextOids ==
    {"BPCHAROID", "CHAROID", "TEXTOID", "VARCHAROID", "NAMEOID", "REGTYPEOID"}
IntArrayOids ==
    {"INT2ARRAYOID", "INT4ARRAYOID", "CIDARRAYOID", "OIDARRAYOID", "XIDARRAYOID"}
FloatArrayOids == {"FLOAT4ARRAYOID", "FLOAT8ARRAYOID"}
JsonArrayOids == {"JSONARRAYOID", "JSONBARRAYOID"}
TextArrayOids ==
    {"BPCHARARRAYOID", "CHARARRAYOID", "TEXTARRAYOID", "VARCHARARRAYOID",
     "NAMEARRAYOID", "REGTYPEARRAYOID"}

\* Line 94: t = decimal_point ? PYGRES_MONEY : PYGRES_TEXT;
money_type_always == PYGRES_MONEY
money_type == IF mod.decimal_point # NUL THEN PYGRES_MONEY ELSE PYGRES_TEXT

\* Line 102: t = bytea_escaped ? PYGRES_TEXT : PYGRES_BYTEA;
bytea_type_always == PYGRES_BYTEA
bytea_type == IF mod.bytea_escaped # 0 THEN PYGRES_TEXT ELSE PYGRES_BYTEA

\* Line 107: t = jsondecode ? PYGRES_JSON : PYGRES_TEXT;
json_type_always == PYGRES_JSON
json_type == IF mod.jsondecode # NULLPTR THEN PYGRES_JSON ELSE PYGRES_TEXT

\* Lines 121-169: t = array_as_text ? PYGRES_TEXT : (base | PYGRES_ARRAY);
\* no base type has the bit of PYGRES_ARRAY, so that | adds it.
array_type_always(base) == base + PYGRES_ARRAY
array_type(base) ==
    IF mod.array_as_text # 0 THEN PYGRES_TEXT ELSE base + PYGRES_ARRAY

\* Lines 171-172: default: t = PYGRES_OTHER;
default_type_text(pgtype) == PYGRES_TEXT
default_type(pgtype) == PYGRES_OTHER

\* Lines 64-176: get_type(pgtype).
get_type(pgtype) ==
    CASE pgtype \in IntOids -> PYGRES_INT
      [] pgtype = "INT8OID" -> PYGRES_LONG
      [] pgtype \in FloatOids -> PYGRES_FLOAT
      [] pgtype = "NUMERICOID" -> PYGRES_DECIMAL
      [] pgtype = "CASHOID" -> money_type
      [] pgtype = "BOOLOID" -> PYGRES_BOOL
      [] pgtype = "BYTEAOID" -> bytea_type
      [] pgtype \in JsonOids -> json_type
      [] pgtype \in TextOids -> PYGRES_TEXT
      [] pgtype \in IntArrayOids -> array_type(PYGRES_INT)
      [] pgtype = "INT8ARRAYOID" -> array_type(PYGRES_LONG)
      [] pgtype \in FloatArrayOids -> array_type(PYGRES_FLOAT)
      [] pgtype = "NUMERICARRAYOID" -> array_type(PYGRES_DECIMAL)
      [] pgtype = "MONEYARRAYOID" -> array_type(money_type)
      [] pgtype = "BOOLARRAYOID" -> array_type(PYGRES_BOOL)
      [] pgtype = "BYTEAARRAYOID" -> array_type(bytea_type)
      [] pgtype \in JsonArrayOids -> array_type(json_type)
      [] pgtype \in TextArrayOids -> array_type(PYGRES_TEXT)
      [] OTHER -> default_type(pgtype)

\* A PGresult: ftype is the oid of each column, rows the cells of each
\* row; a cell is NULL or holds the bytes of its text.
SqlNull == [isnull |-> TRUE, value |-> <<>>]
Cell(q) == [isnull |-> FALSE, value |-> q]
NullResult == [null |-> TRUE, ftype |-> <<>>, rows |-> <<>>]
PGresult(ftype, rows) == [null |-> FALSE, ftype |-> ftype, rows |-> rows]

PQntuples(res) == Len(res.rows)
PQnfields(res) == Len(res.ftype)
PQftype(res, column) == res.ftype[column + 1]
PQgetisnull(res, row, column) == res.rows[row + 1][column + 1].isnull
PQgetvalue(res, row, column) == res.rows[row + 1][column + 1].value

\* Lines 179-193: get_col_types(result, nfields).
get_col_types(result, nfields) ==
    [j \in 1..nfields |-> get_type(PQftype(result, j - 1))]

(***************************************************************************)
(* Scalar casters                                                          *)
(***************************************************************************)
RECURSIVE LStrip(_)
LStrip(q) == IF q # <<>> /\ Head(q) = " " THEN LStrip(Tail(q)) ELSE q

RECURSIVE RStrip(_)
RStrip(q) ==
    IF q # <<>> /\ q[Len(q)] = " " THEN RStrip(SubSeq(q, 1, Len(q) - 1)) ELSE q

RECURSIVE DigitsValue(_, _)
DigitsValue(q, acc) ==
    IF q = <<>> THEN acc ELSE DigitsValue(Tail(q), 10 * acc + DigitVal(Head(q)))

\* A C string ends at its first NUL byte.
RECURSIVE CStr(_)
CStr(q) == IF q = <<>> \/ Head(q) = NUL THEN <<>> ELSE <<Head(q)>> \o CStr(Tail(q))

\* PyLong_FromString(buf, NULL, 10): blanks, an optional sign, digits, blanks.
PyLong_FromString(buf) ==
    LET body == RStrip(LStrip(CStr(buf)))
        neg == body # <<>> /\ Head(body) = "-"
        signed == body # <<>> /\ Head(body) \in {"+", "-"}
        digs == IF signed THEN Tail(body) ELSE body
    IN  IF digs # <<>> /\ \A i \in 1..Len(digs) : IsDigit(digs[i])
        THEN Ok(PyInt(IF neg THEN 0 - DigitsValue(digs, 0) ELSE DigitsValue(digs, 0)))
        ELSE Raise("ValueError")

\* Whether the bytes can be decoded in the encoding.
Decodable(q, encoding) == encoding = pg_encoding_latin1 \/ HighByte \notin Range(q)

get_decoded_string(q, encoding) ==
    IF Decodable(q, encoding) THEN Ok(PyText(q)) ELSE Raise("UnicodeDecodeError")

\* An object returned while the exception exc stays set in the thread.
OkPending(x, exc) == [ok |-> TRUE, obj |-> x, exc |-> exc, calls |-> <<>>]

\* The text of a str object, or the bytes of a bytes object.
PyStrOf(x) == IF "text" \in DOMAIN x THEN x.text ELSE x.bytes

\* The text of a number: a sign, digits with at most one point among
\* them, and blanks around it.
IsNumber(q) ==
    LET body == RStrip(LStrip(q))
        signed == body # <<>> /\ Head(body) \in {"+", "-"}
        digs == IF signed THEN Tail(body) ELSE body
    IN  /\ \E i \in 1..Len(digs) : IsDigit(digs[i])
        /\ \A i \in 1..Len(digs) : IsDigit(digs[i]) \/ digs[i] = "."
        /\ Cardinality({i \in 1..Len(digs) : digs[i] = "."}) <= 1

\* An external callable: int and Decimal raise on what is no number, json
\* on what is no JSON text (here: no number); tag and hook accept
\* everything.
Callables == {"int", "tag"}

PyObject_Call(f, x) ==
    LET q == PyStrOf(x)
        r == CASE f = "int" -> PyLong_FromString(q)
               [] f = "Decimal" ->
                    IF IsNumber(q) THEN Ok(PyCast(f, x))
                    ELSE Raise("InvalidOperation")
               [] f = "json" ->
                    IF IsNumber(q) THEN Ok(PyCast(f, x)) ELSE Raise("ValueError")
               [] OTHER -> Ok(PyCast(f, x))
    IN  [r EXCEPT !.calls = <<[f |-> f, arg |-> x]>>]

\* PyStr_FromString(s) and PyStr_FromStringAndSize(s, size): the bytes
\* decoded as utf8.
PyStr_FromString(q) ==
    IF HighByte \in Range(q) THEN Raise("UnicodeDecodeError") ELSE Ok(PyText(q))

\* PyFloat_FromString(obj), with obj NULL when the string was not made.
PyFloat_FromString(str) ==
    IF ~str.ok THEN str
    ELSE IF IsNumber(str.obj.text) THEN Ok(PyFloat(str.obj.text))
    ELSE Raise("ValueError")

\* PQunescapeBytea(s): the hex format \x6162 gives the bytes of its pairs
\* of digits; in the escape format two backslashes give one.
RECURSIVE HexPairs(_)
HexPairs(q) ==
    IF Len(q) < 2 THEN <<>> ELSE << <<q[1], q[2]>> >> \o HexPairs(Tail(Tail(q)))

RECURSIVE Unbackslash(_)
Unbackslash(q) ==
    IF q = <<>> THEN <<>>
    ELSE IF Len(q) >= 2 /\ q[1] = "\\" /\ q[2] = "\\"
    THEN <<"\\">> \o Unbackslash(Tail(Tail(q)))
    ELSE <<Head(q)>> \o Unbackslash(Tail(q))

PQunescapeBytea(q) ==
    IF Len(q) >= 2 /\ q[1] = "\\" /\ q[2] = "x"
    THEN PyUnhex(HexPairs(Tail(Tail(q))))
    ELSE PyBytes(Unbackslash(q))

\* Lines 197-211: cast_bytea_text(s).
cast_bytea_text(q) == Ok(PQunescapeBytea(q))

\* Lines 215-261: cast_sized_text(s, size, encoding, type).  In the
\* default branch (PYGRES_TEXT) the raw bytes are returned when the text
\* cannot be decoded, and the exception that the decoder has set is not
\* cleared.
cast_sized_text(q, encoding, type) ==
    LET obj == get_decoded_string(q, encoding)
    IN  CASE type = PYGRES_BYTEA -> Ok(PQunescapeBytea(q))
          [] type = PYGRES_JSON ->
                IF obj.ok /\ mod.jsondecode # NULLPTR
                THEN PyObject_Call(mod.jsondecode, obj.obj)
                ELSE obj
          [] OTHER -> IF obj.ok THEN obj ELSE OkPending(PyBytes(q), obj.exc)

\* Lines 266-280: cast_other(s, size, encoding, pgtype, cast_hook); the
\* hook is called with the object and the oid.
cast_other(q, encoding, pgtype, cast_hook) ==
    LET obj == cast_sized_text(q, encoding, PYGRES_TEXT)
    IN  IF cast_hook = NULLPTR THEN obj
        ELSE [ok |-> TRUE, obj |-> PyHooked(cast_hook, obj.obj, pgtype),
              exc |-> obj.exc, calls |-> <<[f |-> cast_hook, arg |-> obj.obj]>>]

\* Lines 326-336 and 403-413: the bytes of a money value that are kept, at
\* most n of them: the digits, the decimal point as a point, a left
\* parenthesis or minus sign as a minus sign.
RECURSIVE MoneyCopy(_, _, _, _)
MoneyCopy(q, i, n, buf) ==
    IF i > Len(q) \/ Len(buf) >= n THEN buf
    ELSE MoneyCopy(q, i + 1, n,
             IF IsDigit(q[i]) THEN Append(buf, q[i])
             ELSE IF q[i] = mod.decimal_point THEN Append(buf, ".")
             ELSE IF q[i] \in {"(", "-"} THEN Append(buf, "-")
             ELSE buf)

\* Lines 337-346 and 417-425: the decimal type called with the string, or
\* a float made of it.
DecimalFromString(q) ==
    IF mod.decimal # NULLPTR
    THEN LET str == PyStr_FromString(q)
         IN  IF str.ok THEN PyObject_Call(mod.decimal, str.obj) ELSE str
    ELSE PyFloat_FromString(PyStr_FromString(q))

\* Lines 356-365 and 428-437: the bool, or its text with bool_as_text.
BoolFromString(q) ==
    LET t == q # <<>> /\ Head(q) = "t"
    IN  IF mod.bool_as_text # 0 THEN Ok(PyText(IF t THEN <<"t">> ELSE <<"f">>))
        ELSE Ok(PyBool(t))

\* Lines 337-346: buf gets its terminator only when the decimal type is
\* set; without it the string that is read runs on into the bytes that
\* buf and the stack after it happen to hold (junk), up to a NUL byte.
MoneyBufTerminated(junk) == <<>>
MoneyBufAfter(junk) == IF mod.decimal # NULLPTR THEN <<>> ELSE junk

\* Lines 284-373: cast_sized_simple(s, size, type).
cast_sized_simple(q, type, junk) ==
    CASE type \in {PYGRES_INT, PYGRES_LONG} ->
            PyLong_FromString(SubSeq(q, 1, Min(Len(q), BUF_SIZE - 1)))
      [] type = PYGRES_FLOAT -> PyFloat_FromString(PyStr_FromString(q))
      [] type = PYGRES_MONEY ->
            DecimalFromString(MoneyCopy(q, 1, BUF_SIZE - 1, <<>>)
                              \o MoneyBufAfter(junk))
      [] type = PYGRES_DECIMAL -> DecimalFromString(q)
      [] type = PYGRES_BOOL -> BoolFromString(q)
      [] OTHER -> PyStr_FromString(q)

\* Lines 377-445: cast_unsized_simple(s, type), s ending at its NUL byte.
cast_unsized_simple(q, type) ==
    CASE type \in {PYGRES_INT, PYGRES_LONG} -> PyLong_FromString(q)
      [] type = PYGRES_FLOAT -> PyFloat_FromString(PyStr_FromString(q))
      [] type = PYGRES_MONEY ->
            DecimalFromString(MoneyCopy(q, 1, BUF_SIZE - 1, <<>>))
      [] type = PYGRES_DECIMAL -> DecimalFromString(q)
      [] type = PYGRES_BOOL -> BoolFromString(q)
      [] OTHER -> PyStr_FromString(q)

\* A call of the two casters with the same content s and tag: what
\* cast_sized_simple(s, size, type) and cast_unsized_simple(s, type) have
\* returned, or NoOutcome before the call.
NoOutcome == [ok |-> FALSE, obj |-> PyNone, exc |-> "not called", calls |-> <<>>]

SimpleIdle ==
    [pc |-> "idle", s |-> <<>>, type |-> 0, junk |-> <<>>, sized |-> NoOutcome,
     unsized |-> NoOutcome]

SimpleCall(s, type, junk) ==
    [SimpleIdle EXCEPT !.pc = "args", !.s = s, !.type = type, !.junk = junk]

(***************************************************************************)
(* The heap of lists under construction, with reference counts             *)
(***************************************************************************)
PyList_New(heap) == Append(heap, [rc |-> 1, items |-> <<>>])

Py_INCREF(heap, x) ==
    IF IsRef(x) THEN [heap EXCEPT ![x.ref].rc = @ + 1] ELSE heap

\* PyList_Append stores a new reference to the item.
PyList_Append(heap, id, x) ==
    [Py_INCREF(heap, x) EXCEPT ![id].items = Append(@, x)]

\* Py_DECREF: a list whose count drops to zero releases its items.
RECURSIVE Py_DECREF(_, _)
RECURSIVE ReleaseItems(_, _)
Py_DECREF(heap, id) ==
    LET h == [heap EXCEPT ![id].rc = @ - 1]
    IN  IF h[id].rc = 0 THEN ReleaseItems(h, h[id].items) ELSE h
ReleaseItems(heap, items) ==
    IF items = <<>> THEN heap
    ELSE ReleaseItems(IF IsRef(Head(items)) THEN Py_DECREF(heap, Head(items).ref)
                      ELSE heap, Tail(items))

\* The value of an object: a list is the list of the values of its items.
RECURSIVE Deref(_, _)
Deref(heap, x) ==
    IF IsRef(x)
    THEN PyList([i \in 1..Len(heap[x.ref].items) |-> Deref(heap, heap[x.ref].items[i])])
    ELSE x

\* The lists in the heap that are still allocated.
Live(heap) == {id \in 1..Len(heap) : heap[id].rc > 0}

(***************************************************************************)
(* Memory of a parser call p: the string, its NUL terminator, the tail     *)
(***************************************************************************)
End(p) == Len(p.str) + 1

\* The last index that can be read without a memory fault.
Lim(p) == End(p) + Len(p.tail)

Rd(p, i) ==
    IF i < End(p) THEN p.str[i]
    ELSE IF i = End(p) THEN NUL
    ELSE IF i <= Lim(p) THEN p.tail[i - End(p)]
    ELSE FAULT

\* The highest index read by a scan that stopped at s: s itself, unless
\* the scan stopped because it met end.
HiOf(p, s) == IF s = End(p) THEN s - 1 ELSE s

\* while (s != end && *s == ' ') ++s;
RECURSIVE SkipBlanks(_, _)
SkipBlanks(p, s) ==
    IF s # End(p) /\ Rd(p, s) = " " THEN SkipBlanks(p, s + 1) ELSE s

\* while (s != end && *s >= '0' && *s <= '9') ++s;
RECURSIVE SkipDigits(_, _)
SkipDigits(p, s) ==
    IF s # End(p) /\ IsDigit(Rd(p, s)) THEN SkipDigits(p, s + 1) ELSE s

\* if (s != end && (*s == '+' || *s == '-')) ++s;
SkipSign(p, s) == IF s # End(p) /\ Rd(p, s) \in {"+", "-"} THEN s + 1 ELSE s

\* Quick case insensitive check if given sized string is null.
STR_IS_NULL_UpperOnly(q, n) == n = 4 /\ q = <<"N", "U", "L", "L">>
STR_IS_NULL(q, n) ==
    /\ n = 4
    /\ q[1] \in {"n", "N"}
    /\ q[2] \in {"u", "U"}
    /\ q[3] \in {"l", "L"}
    /\ q[4] \in {"l", "L"}

\* The n bytes of memory from index i on.
Bytes(p, i, n) == [k \in 1..n |-> Rd(p, i + k - 1)]

(***************************************************************************)
(* cast_array                                                              *)
(***************************************************************************)
ArrayIdle ==
    [str |-> <<>>, tail |-> <<>>, type |-> 0, cast |-> NULLPTR, delim |-> NUL,
     encoding |-> pg_encoding_ascii, s |-> 1, depth |-> 0, ranges |-> 0,
     level |-> 0, stack |-> <<>>, result |-> 0, heap |-> <<>>, pc |-> "idle",
     ret |-> "none", exc |-> "none", err |-> "", hi |-> 0, calls |-> <<>>,
     ncast |-> 0, hooks |-> <<>>, junk |-> <<>>,
     call |-> [type |-> 0, cast |-> NULLPTR, delim |-> NUL]]

\* The state on entry of cast_array(s, size, encoding, type, cast, delim).
ArrayCall(str, encoding, type, cast, delim) ==
    [ArrayIdle EXCEPT !.str = str, !.encoding = encoding, !.type = type,
                      !.cast = cast, !.delim = delim, !.pc = "args",
                      !.call = [type |-> type, cast |-> cast, delim |-> delim]]

\* return NULL with the exception set; heap is the heap after the
\* references the error path releases.
ArrayFail(p, exc, err, heap) ==
    [p EXCEPT !.pc = "done", !.ret = "NULL", !.exc = exc, !.err = err,
              !.heap = heap]

\* A read after the last byte of modelled memory.
ArrayFault(p) == [p EXCEPT !.pc = "done", !.ret = "fault", !.hi = Lim(p) + 1]

\* Line 474: the bytes that cannot delimit the elements.
InvalidArrayDelimNoBrace(delim) == delim \in {"{", "\\"}
InvalidArrayDelim(delim) == delim \in {"{", "}", "\\"}

\* Lines 467-477: the base type and the delimiter.
cast_array_args(p) ==
    LET b == IF (p.type \div PYGRES_ARRAY) % 2 = 1
             THEN p.type - PYGRES_ARRAY ELSE p.type
        type == IF p.type # 0 /\ b = 0 THEN PYGRES_TEXT ELSE b
        q == [p EXCEPT !.type = type]
    IN  IF p.delim = NUL THEN [q EXCEPT !.delim = ",", !.pc = "dims"]
        ELSE IF InvalidArrayDelim(p.delim)
        THEN ArrayFail(q, "ValueError", "Invalid array delimiter", p.heap)
        ELSE [q EXCEPT !.pc = "dims"]

\* Lines 484-501: the loop over the dimension ranges, from position s.
RECURSIVE DimRanges(_, _, _)
DimRanges(p, s, ranges) ==
    LET bad == [valid |-> FALSE, s |-> s, ranges |-> ranges]
        s1 == SkipSign(p, SkipBlanks(p, s + 1))
        s2 == SkipDigits(p, s1)
        s3 == SkipSign(p, s2 + 1)
        s4 == SkipDigits(p, s3)
        s5 == SkipBlanks(p, s4 + 1)
    IN  IF s = End(p) \/ Rd(p, s) # "[" THEN bad
        ELSE IF s1 = End(p) \/ ~IsDigit(Rd(p, s1)) THEN bad
        ELSE IF s2 = End(p) \/ Rd(p, s2) # ":" THEN bad
        ELSE IF s3 = End(p) \/ ~IsDigit(Rd(p, s3)) THEN bad
        ELSE IF s4 = End(p) \/ Rd(p, s4) # "]" THEN bad
        ELSE IF s5 # End(p) /\ Rd(p, s5) = "="
        THEN [valid |-> TRUE, s |-> SkipBlanks(p, s5 + 1), ranges |-> ranges + 1]
        ELSE DimRanges(p, s5, ranges + 1)

\* Lines 479-506: leading blanks and the dimension ranges.
cast_array_dims(p) ==
    LET s0 == SkipBlanks(p, p.s)
        d == DimRanges(p, s0, 0)
        q == [p EXCEPT !.hi = Max(p.hi, s0)]
    IN  IF Rd(p, s0) # "[" THEN [q EXCEPT !.s = s0, !.pc = "depth"]
        ELSE IF ~d.valid
        THEN ArrayFail(q, "ValueError", "Invalid array dimensions", p.heap)
        ELSE [q EXCEPT !.s = d.s, !.ranges = d.ranges, !.pc = "depth"]

\* Line 507: the number of left braces among the leading braces and blanks.
RECURSIVE CountDepth(_, _, _)
CountDepth(p, t, depth) ==
    IF t # End(p) /\ Rd(p, t) \in {"{", " "}
    THEN CountDepth(p, t + 1, IF Rd(p, t) = "{" THEN depth + 1 ELSE depth)
    ELSE depth

\* Line 515: the ranges, when given, are as many as the leading braces.
DimsMismatchNever(ranges, depth) == FALSE
DimsMismatch(ranges, depth) == ranges # 0 /\ depth # ranges

\* Line 520: more levels than the stack of enclosing lists can hold.
TooDeepOffByOne(depth) == depth > MAX_ARRAY_DEPTH + 1
TooDeep(depth) == depth > MAX_ARRAY_DEPTH

\* Lines 507-527: the depth checks and the outermost list.
cast_array_depth(p) ==
    LET depth == CountDepth(p, p.s, 0)
        heap == PyList_New(p.heap)
        s == SkipBlanks(p, p.s + 1)
    IN  IF depth = 0
        THEN ArrayFail(p, "ValueError", "Array must start with a left brace", p.heap)
        ELSE IF DimsMismatch(p.ranges, depth)
        THEN ArrayFail(p, "ValueError", "Array dimensions do not match content",
                       p.heap)
        ELSE IF TooDeep(depth)
        THEN ArrayFail(p, "ValueError", "Array is too deeply nested", p.heap)
        ELSE [p EXCEPT !.depth = depth - 1, !.heap = heap, !.result = Len(heap),
                       !.s = s, !.hi = Max(p.hi, HiOf(p, s)), !.pc = "loop"]

\* Lines 565-571 and 578-586: the scan of an element up to one of the
\* stop bytes; a backslash skips the byte after it.
RECURSIVE ScanElement(_, _, _, _)
ScanElement(p, s, stops, escaped) ==
    IF s = End(p) \/ s > Lim(p) \/ Rd(p, s) \in stops
    THEN [s |-> s, escaped |-> escaped]
    ELSE IF Rd(p, s) = "\\"
    THEN IF s + 1 = End(p) THEN [s |-> s + 1, escaped |-> escaped]
         ELSE ScanElement(p, s + 2, stops, TRUE)
    ELSE ScanElement(p, s + 1, stops, escaped)

\* Line 587: t = s; while (t > estr && *(t - 1) == ' ') --t;
TrimBlanksNot(p, estr, t) == t
RECURSIVE TrimBlanks(_, _, _)
TrimBlanks(p, estr, t) ==
    IF t > estr /\ Rd(p, t - 1) = " " THEN TrimBlanks(p, estr, t - 1) ELSE t

\* Lines 606-610: the unescaped copy of the esize bytes from t on.
RECURSIVE Unescape(_, _, _, _, _)
Unescape(p, t, i, esize, out) ==
    IF i >= esize THEN [out |-> out, t |-> t]
    ELSE IF Rd(p, t) = "\\"
    THEN Unescape(p, t + 2, i + 2, esize, Append(out, Rd(p, t + 1)))
    ELSE Unescape(p, t + 1, i + 1, esize, Append(out, Rd(p, t)))

\* Lines 612-631: the element cast with the base type, or decoded and
\* handed to the external callable.
ArrayDecoded(p, raw) ==
    LET dec == IF p.encoding = pg_encoding_ascii THEN Raise("none")
               ELSE get_decoded_string(raw, p.encoding)
    IN  IF dec.ok THEN dec.obj ELSE PyBytes(raw)

ArrayCastElement(p, raw) ==
    IF p.type # 0
    THEN IF (p.type \div PYGRES_TEXT) % 2 = 1
         THEN cast_sized_text(raw, p.encoding, p.type)
         ELSE cast_sized_simple(raw, p.type, p.junk)
    ELSE IF p.cast # NULLPTR THEN PyObject_Call(p.cast, ArrayDecoded(p, raw))
         ELSE Ok(ArrayDecoded(p, raw))

\* Lines 530-551: a right brace ends the current subarray.
cast_array_close(p) ==
    LET s1 == SkipBlanks(p, p.s + 1)
        s2 == SkipBlanks(p, s1 + 1)
        isdelim == Rd(p, s1) = p.delim
        s3 == IF isdelim THEN s2 ELSE s1
        parent == p.stack[p.level]
        brk(s) == [p EXCEPT !.s = s, !.hi = Max(p.hi, HiOf(p, s)), !.pc = "end"]
    IN  IF p.level = 0 THEN brk(p.s)
        ELSE IF s1 = End(p) THEN brk(s1)
        ELSE IF isdelim /\ s2 = End(p) THEN brk(s2)
        ELSE IF isdelim /\ Rd(p, s2) # "{"
        THEN ArrayFail([p EXCEPT !.s = s2, !.hi = Max(p.hi, s2)], "ValueError",
                       "Subarray expected but not found",
                       Py_DECREF(p.heap, p.result))
        ELSE IF ~isdelim /\ Rd(p, s1) # "}" THEN brk(s1)
        ELSE [p EXCEPT !.s = s3, !.hi = Max(p.hi, s3),
                       !.level = p.level - 1,
                       !.stack = SubSeq(p.stack, 1, p.level - 1),
                       !.result = parent,
                       !.heap = PyList_Append(p.heap, parent, PyRef(p.result))]

\* Lines 631-647: the element is None or the outcome of its cast; when the
\* cast has not failed it is appended, and a delimiter is skipped.
cast_array_append(p, s1, hi2, isnull, raw, element) ==
    LET external == ~isnull /\ p.type = 0 /\ p.cast # NULLPTR
        q == [p EXCEPT !.calls = IF external THEN Append(@, ArrayDecoded(p, raw))
                                 ELSE @,
                       !.ncast = IF ~isnull /\ p.type # 0 THEN @ + 1 ELSE @,
                       !.hooks = IF ~isnull /\ p.type # 0 THEN @ \o element.calls
                                 ELSE @]
        s2 == SkipBlanks(p, s1 + 1)
        heap == PyList_Append(p.heap, p.result, element.obj)
    IN  IF ~element.ok
        THEN ArrayFail([q EXCEPT !.s = s1, !.hi = hi2], element.exc,
                       "element cast failed", Py_DECREF(p.heap, p.result))
        ELSE IF Rd(p, s1) = p.delim
        THEN [q EXCEPT !.s = s2, !.hi = Max(hi2, HiOf(p, s2)), !.heap = heap,
                       !.pc = IF s2 = End(p) THEN "end" ELSE "loop"]
        ELSE [q EXCEPT !.s = s1, !.hi = hi2, !.heap = heap,
                       !.pc = IF Rd(p, s1) # "}" THEN "end" ELSE "loop"]

\* Lines 552-649: an element at the innermost level.
cast_array_element(p) ==
    LET quoted == Rd(p, p.s) = "\""
        estr == IF quoted THEN p.s + 1 ELSE p.s
        sc == ScanElement(p, estr,
                  IF quoted THEN {"\""} ELSE {"\"", "{", "}", p.delim}, FALSE)
        esize == IF quoted THEN sc.s - estr ELSE TrimBlanks(p, estr, sc.s) - estr
        s1 == IF quoted THEN SkipBlanks(p, sc.s + 1) ELSE sc.s
        hi1 == Max(p.hi, Max(HiOf(p, sc.s), HiOf(p, s1)))
        isnull == ~quoted /\ STR_IS_NULL(Bytes(p, estr, esize), esize)
        un == Unescape(p, estr, 0, esize, <<>>)
        raw == IF sc.escaped THEN un.out ELSE Bytes(p, estr, esize)
        hi2 == IF ~isnull /\ sc.escaped THEN Max(hi1, un.t - 1) ELSE hi1
    IN  IF Rd(p, p.s) = "{"
        THEN ArrayFail(p, "ValueError", "Subarray found where not expected",
                       Py_DECREF(p.heap, p.result))
        ELSE IF ~quoted /\ esize = 0
        THEN [p EXCEPT !.s = End(p), !.hi = Max(p.hi, HiOf(p, sc.s)), !.pc = "end"]
        ELSE IF s1 = End(p) THEN [p EXCEPT !.s = s1, !.hi = hi1, !.pc = "end"]
        ELSE cast_array_append(p, s1, hi2, isnull, raw,
                               IF isnull THEN Ok(PyNone)
                               ELSE ArrayCastElement(p, raw))

\* Lines 650-660: a left brace opens a subarray.
cast_array_open(p) ==
    LET s1 == SkipBlanks(p, p.s + 1)
        heap == PyList_New(p.heap)
    IN  IF Rd(p, p.s) # "{"
        THEN ArrayFail(p, "ValueError", "Subarray must start with a left brace",
                       Py_DECREF(p.heap, p.result))
        ELSE IF s1 = End(p)
        THEN [p EXCEPT !.s = s1, !.hi = Max(p.hi, HiOf(p, s1)), !.pc = "end"]
        ELSE [p EXCEPT !.s = s1, !.hi = Max(p.hi, s1),
                       !.stack = Append(p.stack, p.result),
                       !.level = p.level + 1,
                       !.heap = heap, !.result = Len(heap)]

\* Lines 529-661: one pass through the parsing loop.
\* q is the state after the pass, when all its reads were in bounds.
cast_array_reads(p, q) ==
    IF Max(q.hi, p.s) > Lim(p) THEN ArrayFault(p)
    ELSE [q EXCEPT !.hi = Max(q.hi, HiOf(p, p.s))]

cast_array_loop(p) ==
    cast_array_reads(p, IF p.s = End(p) THEN [p EXCEPT !.pc = "end"]
                        ELSE IF Rd(p, p.s) = "}" THEN cast_array_close(p)
                        ELSE IF p.level = p.depth THEN cast_array_element(p)
                        ELSE cast_array_open(p))

\* Lines 662-673: the closing brace of the array and what follows it.
cast_array_end(p) ==
    LET s1 == SkipBlanks(p, p.s + 1)
        q == [p EXCEPT !.hi = Max(p.hi, HiOf(p, p.s))]
    IN  IF p.s # End(p) /\ p.s > Lim(p) THEN ArrayFault(p)
        ELSE IF p.s = End(p) \/ Rd(p, p.s) # "}"
        THEN ArrayFail(q, "ValueError", "Unexpected end of array",
                       Py_DECREF(p.heap, p.result))
        ELSE IF s1 # End(p) /\ s1 > Lim(p) THEN ArrayFault(p)
        ELSE IF s1 # End(p)
        THEN ArrayFail([q EXCEPT !.s = s1, !.hi = Max(p.hi, s1)], "ValueError",
                       "Unexpected characters after end of array",
                       Py_DECREF(p.heap, p.result))
        ELSE [q EXCEPT !.s = s1, !.hi = Max(q.hi, HiOf(p, s1)), !.pc = "done",
                       !.ret = "list"]

\* One step of cast_array, and the whole call.
cast_array_step(p) ==
    CASE p.pc = "args" -> cast_array_args(p)
      [] p.pc = "dims" -> cast_array_dims(p)
      [] p.pc = "depth" -> cast_array_depth(p)
      [] p.pc = "loop" -> cast_array_loop(p)
      [] p.pc = "end" -> cast_array_end(p)

RECURSIVE cast_array(_)
cast_array(p) ==
    IF p.pc = "done" THEN p
    ELSE CHOOSE r \in {cast_array(q) : q \in {cast_array_step(p)}} : TRUE

(***************************************************************************)
(* cast_record                                                             *)
(***************************************************************************)
\* The cast argument: no object, one callable, or a tuple of callables
\* and None.
NoObject == [null |-> TRUE]
PyCallable(f) == [callable |-> f]
PyTuple(q) == [tuple |-> q]

RecordIdle ==
    [str |-> <<>>, tail |-> <<>>, type |-> NULLPTR, cast |-> NoObject, len |-> 0,
     delim |-> NUL, encoding |-> pg_encoding_ascii, s |-> 1, i |-> 0,
     result |-> 0, heap |-> <<>>, pc |-> "idle", ret |-> "none",
     exc |-> "none", err |-> "", value |-> <<>>, reads |-> {},
     calls |-> <<>>, junk |-> <<>>, cast_obj |-> NoObject,
     call |-> [cast |-> NoObject, len |-> 0, delim |-> NUL]]

\* The state on entry of
\* cast_record(s, size, encoding, type, cast, len, delim).
RecordCall(str, encoding, type, cast, len, delim) ==
    [RecordIdle EXCEPT !.str = str, !.encoding = encoding, !.type = type,
                       !.cast = cast, !.len = len, !.delim = delim,
                       !.pc = "args",
                       !.call = [cast |-> cast, len |-> len, delim |-> delim]]

\* pg.cast_record(string, cast, delim): bytes are cast as ascii and a str
\* in its utf8 encoding; the length is the length of a tuple or list of
\* callables, and 0 with one callable, with None and with an empty sequence.
pg_cast_record(str, isbytes, cast_obj, delim) ==
    LET encoding == IF isbytes THEN pg_encoding_ascii ELSE pg_encoding_utf8
        isseq == "tuple" \in DOMAIN cast_obj
        len == IF isseq THEN Len(cast_obj.tuple) ELSE 0
        cast == IF cast_obj = PyNone \/ (isseq /\ len = 0) THEN NoObject
                ELSE cast_obj
    IN  [RecordCall(str, encoding, NULLPTR, cast, len, delim)
            EXCEPT !.cast_obj = cast_obj]

RecordFail(p, exc, err, heap) ==
    [p EXCEPT !.pc = "done", !.ret = "NULL", !.exc = exc, !.err = err,
              !.heap = heap]

\* Line 693: the bytes that cannot delimit the fields.
InvalidRecordDelim(delim) == delim \in {"(", ")", "\\"}

\* Lines 690-696: the delimiter.
cast_record_args(p) ==
    IF p.delim = NUL THEN [p EXCEPT !.delim = ",", !.pc = "start"]
    ELSE IF InvalidRecordDelim(p.delim)
    THEN RecordFail(p, "ValueError", "Invalid record delimiter", p.heap)
    ELSE [p EXCEPT !.pc = "start"]

\* Lines 698-707: the left parenthesis and the list of the fields.
cast_record_start(p) ==
    LET s == SkipBlanks(p, p.s)
        heap == PyList_New(p.heap)
    IN  IF s = End(p) \/ Rd(p, s) # "("
        THEN RecordFail([p EXCEPT !.s = s], "ValueError",
                        "Record must start with a left parenthesis", p.heap)
        ELSE [p EXCEPT !.s = s, !.heap = heap, !.result = Len(heap), !.i = 0,
                       !.pc = "loop"]

\* Lines 720-737: the scan of a field; esize counts its bytes without the
\* quotes and the backslashes.
RECURSIVE RecordScan(_, _, _, _)
RecordScan(p, s, quoted, esize) ==
    LET isquote == Rd(p, s) = "\""
        \* the byte that is counted: the second of a doubled quote
        b == IF isquote THEN s + 1 ELSE s
    IN  IF s >= End(p) THEN [s |-> s, esize |-> esize]
        ELSE IF ~quoted /\ Rd(p, s) \in {")", p.delim}
        THEN [s |-> s, esize |-> esize]
        ELSE IF isquote /\ s + 1 = End(p) THEN [s |-> s + 1, esize |-> esize]
        ELSE IF isquote /\ ~(quoted /\ Rd(p, s + 1) = "\"")
        THEN RecordScan(p, s + 1, ~quoted, esize)
        ELSE IF Rd(p, b) = "\\"
        THEN IF b + 1 = End(p) THEN [s |-> b + 1, esize |-> esize]
             ELSE RecordScan(p, b + 2, quoted, esize + 1)
        ELSE RecordScan(p, b + 1, quoted, esize + 1)

\* Lines 739-761: the copy of the field without its quotes and backslashes.
RECURSIVE RecordUnescape(_, _, _, _, _)
RecordUnescape(p, t, s, quoted, out) ==
    LET isquote == Rd(p, t) = "\""
        b == IF isquote THEN t + 1 ELSE t
        u == IF Rd(p, b) = "\\" THEN b + 1 ELSE b
    IN  IF t >= s THEN out
        ELSE IF isquote /\ ~(quoted /\ Rd(p, t + 1) = "\"")
        THEN RecordUnescape(p, t + 1, s, ~quoted, out)
        ELSE RecordUnescape(p, u + 1, s, quoted, Append(out, Rd(p, u)))

\* PySequence_GetItem(cast, i).
PySequence_GetFirst(seq, i) ==
    IF i < Len(seq.tuple) THEN Ok(seq.tuple[1]) ELSE Raise("IndexError")

PySequence_GetItem(seq, i) ==
    IF i < Len(seq.tuple) THEN Ok(seq.tuple[i + 1]) ELSE Raise("IndexError")

\* Lines 762-803: the field cast with its type, or decoded and handed to
\* the callable of the field.  No caller passes an array of types.
RecordDecoded(p, raw) ==
    LET dec == IF p.encoding = pg_encoding_ascii THEN Raise("none")
               ELSE get_decoded_string(raw, p.encoding)
    IN  IF dec.ok THEN dec.obj ELSE PyBytes(raw)

\* What a finished call of cast_array hands to its caller.
ArrayReturned(a) ==
    IF a.ret = "list" THEN Ok(Deref(a.heap, PyRef(a.result))) ELSE Raise(a.exc)

RecordCastElement(p, raw) ==
    IF p.type # NULLPTR
    THEN LET etype == p.type[p.i + 1]
         IN  IF (etype \div PYGRES_ARRAY) % 2 = 1
             THEN ArrayReturned(cast_array(ArrayCall(raw, p.encoding, etype,
                                                     NULLPTR, NUL)))
             ELSE IF (etype \div PYGRES_TEXT) % 2 = 1
             THEN cast_sized_text(raw, p.encoding, etype)
             ELSE cast_sized_simple(raw, etype, p.junk)
    ELSE IF p.cast = NoObject THEN Ok(RecordDecoded(p, raw))
    ELSE IF p.len # 0
    THEN LET ecast == PySequence_GetItem(p.cast, p.i)
         IN  IF ~ecast.ok THEN ecast
             ELSE IF ecast.obj = PyNone THEN Ok(RecordDecoded(p, raw))
             ELSE PyObject_Call(ecast.obj.callable, RecordDecoded(p, raw))
    ELSE PyObject_Call(p.cast.callable, RecordDecoded(p, raw))

\* Line 815: the field after the last expected one.
TooManyColumnsLate(len, i) == len # 0 /\ i > len
TooManyColumns(len, i) == len # 0 /\ i >= len

\* Lines 809-818: the field is appended and counted; a delimiter leads to
\* the next field unless the expected fields are complete.
RecordAppend(p, s, element, reads) ==
    LET heap == PyList_Append(p.heap, p.result, element)
        i == IF p.len # 0 THEN p.i + 1 ELSE p.i
        q == [p EXCEPT !.s = s, !.heap = heap, !.i = i, !.reads = reads]
    IN  IF Rd(p, s) # p.delim THEN [q EXCEPT !.pc = "end"]
        ELSE IF TooManyColumns(p.len, i)
        THEN RecordFail(q, "ValueError", "Too many columns",
                        Py_DECREF(heap, p.result))
        ELSE q

\* Line 712: the field is empty.
RecordFieldEmptyAtDelim(p, s) == Rd(p, s) = p.delim
RecordFieldEmpty(p, s) == Rd(p, s) \in {")", p.delim}

\* Lines 804-818: the cast of the field has failed, or the element is
\* appended.
cast_record_field(p, s, reads, element) ==
    IF ~element.ok
    THEN RecordFail([p EXCEPT !.s = s, !.reads = reads,
                              !.calls = @ \o element.calls], element.exc, "",
                    Py_DECREF(p.heap, p.result))
    ELSE RecordAppend([p EXCEPT !.calls = @ \o element.calls], s,
                      element.obj, reads)

\* Lines 709-819: one turn of while (++s != end), which is one field.
cast_record_loop(p) ==
    LET estr == p.s + 1
        quoted == Rd(p, estr) = "\""
        sc == RecordScan(p, IF quoted THEN estr + 1 ELSE estr, quoted, 0)
        raw == IF estr + sc.esize # sc.s
               THEN RecordUnescape(p, estr, sc.s, FALSE, <<>>)
               ELSE Bytes(p, estr, sc.esize)
        reads == IF p.type # NULLPTR \/ (p.cast # NoObject /\ p.len # 0)
                 THEN p.reads \cup {p.i} ELSE p.reads
    IN  IF estr = End(p) THEN [p EXCEPT !.s = estr, !.pc = "end"]
        ELSE IF RecordFieldEmpty(p, estr)
        THEN RecordAppend(p, estr, PyNone, p.reads)
        ELSE IF sc.s = End(p) THEN [p EXCEPT !.s = sc.s, !.pc = "end"]
        ELSE cast_record_field(p, sc.s, reads, RecordCastElement(p, raw))

\* Line 830: fewer fields than expected.
TooFewColumns(len, i) == len # 0 /\ i < len

\* Lines 820-837: the right parenthesis, what follows it, and the tuple.
cast_record_end(p) ==
    LET s == SkipBlanks(p, p.s + 1)
        freed == Py_DECREF(p.heap, p.result)
    IN  IF p.s = End(p) \/ Rd(p, p.s) # ")"
        THEN RecordFail(p, "ValueError", "Unexpected end of record", freed)
        ELSE IF s # End(p)
        THEN RecordFail([p EXCEPT !.s = s], "ValueError",
                        "Unexpected characters after end of record", freed)
        ELSE IF TooFewColumns(p.len, p.i)
        THEN RecordFail([p EXCEPT !.s = s], "ValueError", "Too few columns", freed)
        ELSE [p EXCEPT !.s = s, !.pc = "done", !.ret = "tuple",
                       !.value = p.heap[p.result].items, !.heap = freed]

(***************************************************************************)
(* cast_hstore                                                             *)
(***************************************************************************)
\* refs holds the references the function owns: the dictionary, the key
\* and the value of the pair being parsed.
HstoreIdle ==
    [str |-> <<>>, tail |-> <<>>, encoding |-> pg_encoding_ascii, s |-> 1,
     result |-> <<>>, key_obj |-> PyNone, val_obj |-> PyNone, quoted |-> FALSE,
     refs |-> {}, pc |-> "idle", ret |-> "none", exc |-> "none", err |-> "",
     ncast |-> 0]

\* The state on entry of cast_hstore(s, size, encoding).
HstoreCall(str, encoding) ==
    [HstoreIdle EXCEPT !.str = str, !.encoding = encoding, !.pc = "new"]

\* pg.cast_hstore(string): bytes are cast as ascii and a str in its utf8
\* encoding.
pg_cast_hstore(str, isbytes) ==
    HstoreCall(str, IF isbytes THEN pg_encoding_ascii ELSE pg_encoding_utf8)

\* return NULL after Py_DECREF of the references in released.
HstoreFail(p, s, err, released) ==
    [p EXCEPT !.s = s, !.pc = "done", !.ret = "NULL", !.exc = "ValueError",
              !.err = err, !.refs = p.refs \ released]

\* Line 848: result = PyDict_New();
cast_hstore_new(p) ==
    [p EXCEPT !.result = <<>>, !.refs = {"result"}, !.pc = "key"]

\* Lines 862-869, 877-884, 920-927 and 935-942: the scan of a key or value
\* up to one of the stop bytes; esc counts the backslashes that escape a
\* byte.
RECURSIVE HstoreScan(_, _, _, _)
HstoreScan(p, s, stops, esc) ==
    IF s >= End(p) \/ Rd(p, s) \in stops THEN [s |-> s, esc |-> esc]
    ELSE IF Rd(p, s) = "\\"
    THEN IF s + 1 = End(p) THEN [s |-> s + 1, esc |-> esc]
         ELSE HstoreScan(p, s + 2, stops, esc + 1)
    ELSE HstoreScan(p, s + 1, stops, esc)

\* Lines 890-904 and 951-966: the copy without the backslashes.
RECURSIVE HstoreUnescape(_, _, _, _)
HstoreUnescape(p, r, s, out) ==
    IF r >= s THEN out
    ELSE IF Rd(p, r) = "\\"
    THEN IF r + 1 = s THEN out
         ELSE HstoreUnescape(p, r + 2, s, Append(out, Rd(p, r + 1)))
    ELSE HstoreUnescape(p, r + 1, s, Append(out, Rd(p, r)))

\* The size bytes handed to cast_sized_text: the bytes of the string, or
\* the copy; the bytes of the copy that were not written hold u.
HstoreBytes(p, from, s, esc, u) ==
    LET size == s - from - esc
        out == HstoreUnescape(p, from, s, <<>>)
    IN  IF esc = 0 THEN Bytes(p, from, size)
        ELSE [k \in 1..size |-> IF k <= Len(out) THEN out[k] ELSE u]

\* Lines 851-909: the key of the next pair, or the end of the string.
cast_hstore_key(p, u) ==
    LET s0 == SkipBlanks(p, p.s)
        quoted == Rd(p, s0) = "\""
        key == IF quoted THEN s0 + 1 ELSE s0
        sc == HstoreScan(p, key, IF quoted THEN {"\""} ELSE {"=", " "}, 0)
        key_obj == cast_sized_text(HstoreBytes(p, key, sc.s, sc.esc, u),
                                   p.encoding, PYGRES_TEXT)
    IN  IF p.s = End(p) \/ s0 = End(p)
        THEN [p EXCEPT !.s = s0, !.pc = "done", !.ret = "dict",
                       !.refs = p.refs \ {"result"}]
        ELSE IF quoted /\ sc.s = End(p)
        THEN HstoreFail(p, sc.s, "Unterminated quote", {"result"})
        ELSE IF ~quoted /\ sc.s = key
        THEN HstoreFail(p, sc.s, "Missing key", {"result"})
        ELSE [p EXCEPT !.s = sc.s, !.quoted = quoted, !.key_obj = key_obj.obj,
                       !.exc = IF key_obj.exc # "none" THEN key_obj.exc ELSE @,
                       !.ncast = @ + 1,
                       !.refs = p.refs \cup {"key_obj"}, !.pc = "arrow"]

\* Lines 910-915: the arrow between key and value.
cast_hstore_arrow(p) ==
    LET s == SkipBlanks(p, IF p.quoted THEN p.s + 1 ELSE p.s)
        after == IF s = End(p) THEN s
                 ELSE IF Rd(p, s) # "=" \/ s + 1 = End(p) THEN s + 1
                 ELSE s + 2
    IN  IF s = End(p) \/ Rd(p, s) # "=" \/ s + 1 = End(p) \/ Rd(p, s + 1) # ">"
        THEN HstoreFail(p, after, "Invalid characters after key",
                        {"key_obj", "result"})
        ELSE [p EXCEPT !.s = s + 2, !.pc = "value"]

\* Lines 933-948: the unquoted value that stands for None.
HstoreIsNullAlsoQuoted(quoted, q, n) == STR_IS_NULL(q, n)
HstoreIsNull(quoted, q, n) == ~quoted /\ STR_IS_NULL(q, n)

\* Lines 916-975: the value of the pair.
cast_hstore_value(p, u) ==
    LET s0 == SkipBlanks(p, p.s)
        quoted == Rd(p, s0) = "\""
        val == IF quoted THEN s0 + 1 ELSE s0
        sc == HstoreScan(p, val, IF quoted THEN {"\""} ELSE {",", " "}, 0)
        isnull == HstoreIsNull(quoted, Bytes(p, val, sc.s - val), sc.s - val)
        val_obj == IF isnull THEN Ok(PyNone)
                   ELSE cast_sized_text(HstoreBytes(p, val, sc.s, sc.esc, u),
                                        p.encoding, PYGRES_TEXT)
    IN  IF quoted /\ sc.s = End(p)
        THEN HstoreFail(p, sc.s, "Unterminated quote", {"result"})
        ELSE IF ~quoted /\ sc.s = val
        THEN HstoreFail(p, sc.s, "Missing value", {"key_obj", "result"})
        ELSE [p EXCEPT !.s = sc.s, !.quoted = quoted, !.val_obj = val_obj.obj,
                       !.exc = IF val_obj.exc # "none" THEN val_obj.exc ELSE @,
                       !.ncast = IF isnull THEN @ ELSE @ + 1,
                       !.refs = p.refs \cup {"val_obj"}, !.pc = "next"]

\* PyDict_SetItem(result, key_obj, val_obj): the value of a key that is
\* there is replaced.
PyDict_SetItem(d, k, v) ==
    IF \E i \in 1..Len(d) : d[i][1] = k
    THEN [i \in 1..Len(d) |-> IF d[i][1] = k THEN <<k, v>> ELSE d[i]]
    ELSE Append(d, <<k, v>>)

\* Lines 985-990: nothing but blanks follows the comma.
MissingEntryNever(p, s) == FALSE
MissingEntry(p, s) == s = End(p)

\* Lines 976-993: what follows the value, and the pair set in the
\* dictionary.
cast_hstore_next(p) ==
    LET s0 == SkipBlanks(p, IF p.quoted THEN p.s + 1 ELSE p.s)
        s1 == SkipBlanks(p, s0 + 1)
        all == {"key_obj", "val_obj", "result"}
        set == [p EXCEPT !.result = PyDict_SetItem(p.result, p.key_obj, p.val_obj),
                         !.refs = p.refs \ {"key_obj", "val_obj"},
                         !.pc = "key"]
    IN  IF s0 = End(p) THEN [set EXCEPT !.s = s0]
        ELSE IF Rd(p, s0) # ","
        THEN HstoreFail(p, s0 + 1, "Invalid characters after val", all)
        ELSE IF MissingEntry(p, s1) THEN HstoreFail(p, s1, "Missing entry", all)
        ELSE [set EXCEPT !.s = s1]

(***************************************************************************)
(* The query object                                                        *)
(***************************************************************************)
\* The fields of queryObject; col_types is <<>> for the NULL pointer.
\* pending holds the results that PQgetResult still has to hand out,
\* fetched counts the results that the object has obtained, ret, value,
\* exc and calls are what the last method call returned and called.
QueryIdle ==
    [pc |-> "idle", result |-> NullResult, pending |-> <<>>, fetched |-> 0,
     async |-> 0,
     encoding |-> pg_encoding_ascii, cast_hook |-> NULLPTR, current_row |-> 0,
     max_row |-> 0, num_fields |-> 0, col_types |-> <<>>, ret |-> "none",
     value |-> PyNone, exc |-> "none", calls |-> <<>>]

\* ext/pgconn.c, lines 387-413: the query object of conn.query(sql).
conn_query(result, encoding, cast_hook) ==
    [QueryIdle EXCEPT !.pc = "alive", !.result = result, !.encoding = encoding,
                      !.cast_hook = cast_hook, !.max_row = PQntuples(result),
                      !.num_fields = PQnfields(result),
                      !.col_types = get_col_types(result, PQnfields(result)),
                      !.fetched = 1, !.ret = "query"]

\* ext/pgconn.c, lines 387-413: the query object of conn.send_query(sql),
\* whose results are fetched later.
conn_send_query(pending, encoding, cast_hook) ==
    [QueryIdle EXCEPT !.pc = "alive", !.pending = pending, !.async = 1,
                      !.encoding = encoding, !.cast_hook = cast_hook,
                      !.ret = "query"]

\* ext/pgquery.c, lines 112-196: _get_async_result(self, keep); ret is
\* "self" when the rows of the query object are to be used.
AsyncNeverKept(async, keep) == IF async = 0 THEN 0 ELSE 1

AsyncAfter(async, keep) ==
    IF async = 1 THEN (IF keep THEN 2 ELSE 1)
    ELSE IF async = 2 /\ ~keep THEN 1 ELSE async

_get_async_result(self, keep) ==
    LET s1 == [self EXCEPT !.async = AsyncAfter(self.async, keep)]
    IN  IF self.async = 1
        THEN IF self.pending = <<>>
             THEN [q |-> [s1 EXCEPT !.result = NullResult, !.max_row = 0,
                                    !.num_fields = 0, !.col_types = <<>>],
                   ret |-> "None"]
             ELSE [q |-> [s1 EXCEPT
                            !.result = Head(self.pending),
                            !.pending = Tail(self.pending),
                            !.fetched = @ + 1,
                            !.max_row = PQntuples(Head(self.pending)),
                            !.num_fields = PQnfields(Head(self.pending)),
                            !.col_types =
                                get_col_types(Head(self.pending),
                                              PQnfields(Head(self.pending)))],
                   ret |-> "self"]
        ELSE IF s1.async = 2 /\ self.max_row = 0 /\ self.num_fields = 0
                /\ self.col_types = <<>>
        THEN [q |-> s1, ret |-> "None"]
        ELSE [q |-> s1, ret |-> "self"]

\* What cast_array hands to _query_value_in_column.
ArrayCellOutcome(a) ==
    IF a.ret = "list"
    THEN [ok |-> TRUE, obj |-> Deref(a.heap, PyRef(a.result)), exc |-> "none",
          calls |-> a.hooks]
    ELSE [ok |-> FALSE, obj |-> PyNone,
          exc |-> IF a.ret = "fault" THEN "fault" ELSE a.exc, calls |-> a.hooks]

\* pgquery.c, line 64: type = self->col_types[column];
ColumnTypeNow(self, column) == get_type(PQftype(self.result, column))
ColumnType(self, column) == self.col_types[column + 1]

\* The outcome of a caster, with the call of the caster on the text q
\* put before the calls that the caster has made.
CastLogged(q, out) ==
    [out EXCEPT !.calls = <<[f |-> "caster", arg |-> PyBytes(q)]>> \o @]

\* A result without NULLs.
PQgetisnullNever(res, row, column) == FALSE

\* pgquery.c, line 56: PQgetisnull(self->result, self->current_row, column)
CellIsNull(res, row, column) == PQgetisnull(res, row, column)

\* pgquery.c, lines 50-84: _query_value_in_column(self, column); junk is
\* what uninitialised stack memory holds during the call.
_query_value_in_column(self, column, junk) ==
    IF CellIsNull(self.result, self.current_row, column) THEN Ok(PyNone)
    ELSE CastLogged(PQgetvalue(self.result, self.current_row, column),
        IF (ColumnType(self, column) \div PYGRES_ARRAY) % 2 = 1
        THEN CHOOSE r \in
                 {ArrayCellOutcome(cast_array(p)) :
                     p \in {[ArrayCall(PQgetvalue(self.result, self.current_row,
                                                  column),
                                       self.encoding, ColumnType(self, column),
                                       NULLPTR, NUL) EXCEPT !.junk = junk]}} :
                 TRUE
        ELSE IF ColumnType(self, column) = PYGRES_BYTEA
        THEN cast_bytea_text(PQgetvalue(self.result, self.current_row, column))
        ELSE IF ColumnType(self, column) = PYGRES_OTHER
        THEN cast_other(PQgetvalue(self.result, self.current_row, column),
                        self.encoding, PQftype(self.result, column),
                        self.cast_hook)
        ELSE IF (ColumnType(self, column) \div PYGRES_TEXT) % 2 = 1
        THEN cast_sized_text(PQgetvalue(self.result, self.current_row, column),
                             self.encoding, ColumnType(self, column))
        ELSE cast_unsized_simple(PQgetvalue(self.result, self.current_row,
                                            column),
                                 ColumnType(self, column)))

\* The calls of a cell, with the row and the column of the cell.
CellCalls(calls, row, column) ==
    [k \in 1..Len(calls) |->
        [f |-> calls[k].f, arg |-> calls[k].arg, row |-> row, col |-> column]]

\* pgquery.c, lines 97-103: the loop over the columns; acc holds the
\* values of the columns before j.
RowFailed(acc, val, calls) ==
    [ok |-> FALSE, obj |-> PyNone, exc |-> val.exc, calls |-> acc.calls \o calls]

RowWith(acc, val, calls) ==
    [ok |-> TRUE, obj |-> Append(acc.obj, val.obj),
     exc |-> IF acc.exc # "none" THEN acc.exc ELSE val.exc,
     calls |-> acc.calls \o calls]

RECURSIVE RowCells(_, _, _, _)
RowCell(self, j, junk, acc, val) ==
    IF ~val.ok
    THEN RowFailed(acc, val, CellCalls(val.calls, self.current_row, j))
    ELSE RowCells(self, j + 1, junk,
                  RowWith(acc, val, CellCalls(val.calls, self.current_row, j)))

RowCells(self, j, junk, acc) ==
    IF j >= self.num_fields THEN acc
    ELSE RowCell(self, j, junk, acc, _query_value_in_column(self, j, junk))

\* pgquery.c, lines 86-106: _query_row_as_tuple(self).
TupleOf(r) == IF r.ok THEN [r EXCEPT !.obj = PyTuple(@)] ELSE r

_query_row_as_tuple(self, junk) == TupleOf(RowCells(self, 0, junk, Ok(<<>>)))

\* What a method returns: the object, or NULL with the exception set.
QueryReturn(self, r, ret) ==
    [self EXCEPT !.ret = IF r.ok THEN ret ELSE "NULL", !.value = r.obj,
                 !.exc = r.exc, !.calls = r.calls]

QueryRaise(self, exc) ==
    [self EXCEPT !.ret = "NULL", !.value = PyNone, !.exc = exc, !.calls = <<>>]

QueryNone(self) ==
    [self EXCEPT !.ret = "None", !.value = PyNone, !.exc = "none", !.calls = <<>>]

\* ext/pgquery.c, lines 199-220: query_getitem(self, i).
query_getitem(self, i, junk) ==
    LET r == _get_async_result(self, FALSE)
        q == r.q
    IN  IF r.ret # "self" THEN QueryNone(q)
        ELSE IF i < 0 \/ i >= q.max_row THEN QueryRaise(q, "IndexError")
        ELSE QueryReturn([q EXCEPT !.current_row = i],
                         _query_row_as_tuple([q EXCEPT !.current_row = i], junk),
                         "tuple")

\* ext/pgquery.c, lines 224-235: query_iter(self).
query_iter(self) ==
    LET r == _get_async_result(self, FALSE)
        q == r.q
    IN  IF r.ret # "self" THEN QueryNone(q)
        ELSE [q EXCEPT !.current_row = 0, !.ret = "self", !.value = PyNone,
                       !.exc = "none", !.calls = <<>>]

\* The row returned and, when it was made, the next row selected.
RowReturn(self, r) ==
    QueryReturn([self EXCEPT !.current_row = IF r.ok THEN @ + 1 ELSE @], r,
                "tuple")

\* pgquery.c, lines 140-153: query_next(self).
query_next(self, junk) ==
    IF self.current_row >= self.max_row THEN QueryRaise(self, "StopIteration")
    ELSE RowReturn(self, _query_row_as_tuple(self, junk))

\* ext/pgquery.c, lines 429-446: query_one(self).
query_one_stays(self, junk) ==
    LET r == _get_async_result(self, FALSE)
        q == r.q
    IN  IF r.ret # "self" THEN QueryNone(q)
        ELSE IF q.current_row >= q.max_row THEN QueryNone(q)
        ELSE QueryReturn(q, _query_row_as_tuple(q, junk), "tuple")

query_one(self, junk) ==
    LET r == _get_async_result(self, FALSE)
        q == r.q
    IN  IF r.ret # "self" THEN QueryNone(q)
        ELSE IF q.current_row >= q.max_row THEN QueryNone(q)
        ELSE RowReturn(q, _query_row_as_tuple(q, junk))

\* ext/pgquery.c, lines 498-506: the loop of query_getresult over the
\* rows; acc holds the rows before the current one.
RECURSIVE ResultRows(_, _, _)
ResultRow(self, junk, acc, val) ==
    IF ~val.ok THEN QueryReturn(self, RowFailed(acc, val, val.calls), "list")
    ELSE ResultRows([self EXCEPT !.current_row = @ + 1], junk,
                    RowWith(acc, val, val.calls))

ResultRows(self, junk, acc) ==
    IF self.current_row >= self.max_row
    THEN QueryReturn(self, [acc EXCEPT !.obj = PyList(@)], "list")
    ELSE ResultRow(self, junk, acc, _query_row_as_tuple(self, junk))

\* ext/pgquery.c, lines 487-510: query_getresult(self).
query_getresult(self, junk) ==
    LET r == _get_async_result(self, FALSE)
        q == r.q
    IN  IF r.ret # "self" THEN QueryNone(q)
        ELSE ResultRows([q EXCEPT !.current_row = 0], junk, Ok(<<>>))

\* ext/pgquery.c, lines 674-692: query_onenamed(self) with the helper
\* namednext set: the result is kept for the helper, which is called
\* with the query object.
query_onenamed(self) ==
    LET r == _get_async_result(self, TRUE)
        q == r.q
    IN  IF r.ret # "self" THEN QueryNone(q)
        ELSE IF q.current_row >= q.max_row THEN QueryNone(q)
        ELSE [q EXCEPT !.ret = "named", !.value = PyNone, !.exc = "none",
                       !.calls = <<>>]
\* ext/pgquery.c, lines 457-478: query_single(self).
query_single(self, junk) ==
    LET r == _get_async_result(self, FALSE)
        q == r.q
    IN  IF r.ret # "self" THEN QueryNone(q)
        ELSE IF q.max_row # 1
        THEN QueryRaise(q, IF q.max_row # 0 THEN "MultipleResultsError"
                           ELSE "NoResultError")
        ELSE RowReturn([q EXCEPT !.current_row = 0],
                       _query_row_as_tuple([q EXCEPT !.current_row = 0], junk))

\* ext/pgquery.c, lines 809-821: the loop of query_scalarresult over the
\* rows; acc holds the values of the rows before the current one.
RECURSIVE ScalarRows(_, _, _)
ScalarRow(self, junk, acc, val) ==
    IF ~val.ok
    THEN QueryReturn(self, RowFailed(acc, val,
                                     CellCalls(val.calls, self.current_row, 0)),
                     "list")
    ELSE ScalarRows([self EXCEPT !.current_row = @ + 1], junk,
                    RowWith(acc, val, CellCalls(val.calls, self.current_row, 0)))

ScalarRows(self, junk, acc) ==
    IF self.current_row >= self.max_row
    THEN QueryReturn(self, [acc EXCEPT !.obj = PyList(@)], "list")
    ELSE ScalarRow(self, junk, acc, _query_value_in_column(self, 0, junk))

\* ext/pgquery.c, lines 794-824: query_scalarresult(self).
query_scalarresult(self, junk) ==
    LET r == _get_async_result(self, FALSE)
        q == r.q
    IN  IF r.ret # "self" THEN QueryNone(q)
        ELSE IF q.num_fields = 0 THEN QueryRaise(q, "ProgrammingError")
        ELSE ScalarRows([q EXCEPT !.current_row = 0], junk, Ok(<<>>))


(***************************************************************************)
(* The source object                                                       *)
(***************************************************************************)
\* pgmodule.c, lines 39-58: the default of arraysize, the result types
\* and the moves.
PG_ARRAYSIZE == 1
RESULT_EMPTY == 1
RESULT_DML == 2
RESULT_DDL == 3
RESULT_DQL == 4
QUERY_MOVEFIRST == 1
QUERY_MOVELAST == 2
QUERY_MOVENEXT == 3
QUERY_MOVEPREV == 4

\* pgmodule.c, lines 129-141: sourceObject; op is the last method called,
\* ret, value and exc what it returned, reads the rows of the result that
\* it read.
SourceIdle ==
    [pc |-> "none", valid |-> 0, result |-> NullResult,
     encoding |-> pg_encoding_ascii, result_type |-> RESULT_EMPTY,
     arraysize |-> PG_ARRAYSIZE, current_row |-> 0, max_row |-> 0,
     num_fields |-> 0, op |-> "none", ret |-> "none", value |-> PyNone,
     exc |-> "none", err |-> "", reads |-> <<>>]

(***************************************************************************)
(* The connection object                                                   *)
(***************************************************************************)
\* pgmodule.c, lines 118-126: connObject after pg.connect(); bound holds
\* the names of the methods that were looked up while the connection was
\* open and are still held.
ConnOpen ==
    [valid |-> 1, cnx |-> "PGconn", bound |-> {}, op |-> "none",
     ret |-> "none", exc |-> "none", err |-> ""]

ConnFail(self, op, exc, err) ==
    [self EXCEPT !.op = op, !.ret = "NULL", !.exc = exc, !.err = err]

ConnDone(self, op, ret) ==
    [self EXCEPT !.op = op, !.ret = ret, !.exc = "none", !.err = ""]

\* ext/pgconn.c, lines 115-124: _check_cnx_obj(self).
_check_cnx_obj(self) == self.valid # 0 /\ self.cnx # NULLPTR

\* ext/pgconn.c, lines 26-41: conn_getattr(self, name) refuses every name
\* but close when the connection is closed.
conn_getattr_refused(self, name) == name # "close" /\ self.cnx = NULLPTR

conn_getattr(self, name) ==
    IF conn_getattr_refused(self, name)
    THEN ConnFail(self, name, "TypeError", "Connection is not valid")
    ELSE [ConnDone(self, name, "method") EXCEPT !.bound = @ \cup {name}]

\* ext/pgconn.c, lines 1650-1666: conn_close(self).
conn_close(self) ==
    IF self.cnx = NULLPTR
    THEN ConnFail(self, "close", "InternalError", "Connection already closed")
    ELSE [ConnDone(self, "close", "None") EXCEPT !.cnx = NULLPTR]

\* ext/pgconn.c, lines 1511-1520: conn_fileno(self).
conn_fileno(self) ==
    IF self.cnx = NULLPTR
    THEN ConnFail(self, "fileno", "TypeError", "Connection is not valid")
    ELSE ConnDone(self, "fileno", "int")

\* ext/pgconn.c, lines 1557-1568: conn_get_cast_hook(self).
conn_get_cast_hook(self) == ConnDone(self, "get_cast_hook", "object")

\* ext/pgconn.c, lines 1411-1438: what conn_getlo(self, oid) answers, and
\* lines 1359-1373: the large object that it makes.
conn_getlo(self, oid) ==
    IF ~_check_cnx_obj(self)
    THEN ConnFail(self, "getlo", "OperationalError", "Connection has been closed")
    ELSE IF oid = 0
    THEN ConnFail(self, "getlo", "ValueError", "The object oid can't be null")
    ELSE ConnDone(self, "getlo", "large")

(***************************************************************************)
(* The large object                                                        *)
(***************************************************************************)
\* pgmodule.c, lines 166-172: largeObject; op is the last method called,
\* pre_fd and pre_oid what lo_fd and lo_oid were when it was called.
LargeIdle ==
    [pc |-> "none", lo_oid |-> 0, lo_fd |-> -1, op |-> "none", ret |-> "none",
     exc |-> "none", err |-> "", pre_fd |-> -1, pre_oid |-> 0]

\* ext/pgconn.c, lines 1359-1373: large_new(pgcnx, oid).
large_new(oid) == [LargeIdle EXCEPT !.pc = "alive", !.lo_oid = oid, !.op = "new"]

CHECK_OPEN == 1
CHECK_CLOSE == 2

\* pglarge.c, lines 37-63: _check_lo_obj(self, level): the error that is
\* set, or none.
NoError == [exc |-> "none", err |-> ""]

_check_lo_obj_any_state(self, pgcnx, level) ==
    IF ~_check_cnx_obj(pgcnx)
    THEN [exc |-> "OperationalError", err |-> "Connection has been closed"]
    ELSE IF self.lo_oid = 0
    THEN [exc |-> "IntegrityError", err |-> "Object is not valid (null oid)"]
    ELSE NoError

_check_lo_obj(self, pgcnx, level) ==
    IF ~_check_cnx_obj(pgcnx)
    THEN [exc |-> "OperationalError", err |-> "Connection has been closed"]
    ELSE IF self.lo_oid = 0
    THEN [exc |-> "IntegrityError", err |-> "Object is not valid (null oid)"]
    ELSE IF (level \div CHECK_OPEN) % 2 = 1 /\ self.lo_fd < 0
    THEN [exc |-> "IOError", err |-> "Object is not opened"]
    ELSE IF (level \div CHECK_CLOSE) % 2 = 1 /\ self.lo_fd >= 0
    THEN [exc |-> "IOError", err |-> "Object is already opened"]
    ELSE NoError

LargeCalled(self, op) ==
    [self EXCEPT !.op = op, !.pre_fd = self.lo_fd, !.pre_oid = self.lo_oid]

LargeFail(self, op, e) ==
    [LargeCalled(self, op) EXCEPT !.ret = "NULL", !.exc = e.exc, !.err = e.err]

LargeDone(self, op, ret) ==
    [LargeCalled(self, op) EXCEPT !.ret = ret, !.exc = "none", !.err = ""]

\* A method that checks the object with the level and then calls the
\* server, which answers or fails with the message.
LargeChecked(self, pgcnx, op, level, served, err, done) ==
    IF _check_lo_obj(self, pgcnx, level) # NoError
    THEN LargeFail(self, op, _check_lo_obj(self, pgcnx, level))
    ELSE IF ~served THEN LargeFail(self, op, [exc |-> "IOError", err |-> err])
    ELSE done

\* pglarge.c, lines 119-146: large_open(self, mode); fd is what lo_open
\* returns.
large_open(self, pgcnx, fd) ==
    LargeChecked(self, pgcnx, "open", CHECK_CLOSE, fd # -1,
                 "Can't open large object",
                 [LargeDone(self, "open", "None") EXCEPT !.lo_fd = fd])

\* pglarge.c, lines 152-170: large_close(self).
large_close(self, pgcnx, served) ==
    LargeChecked(self, pgcnx, "close", CHECK_OPEN, served,
                 "Error while closing large object fd",
                 [LargeDone(self, "close", "None") EXCEPT !.lo_fd = -1])

\* pglarge.c, lines 177-215: large_read(self, size).
large_read(self, pgcnx, size, served) ==
    IF size <= 0
    THEN LargeFail(self, "read",
                   [exc |-> "ValueError",
                    err |-> "Method read() takes a positive integer as argument"])
    ELSE LargeChecked(self, pgcnx, "read", CHECK_OPEN, served,
                      "Error while reading", LargeDone(self, "read", "bytes"))

\* pglarge.c, lines 222-251: large_write(self, buffer).
large_write(self, pgcnx, served) ==
    LargeChecked(self, pgcnx, "write", CHECK_OPEN, served,
                 "Buffer truncated during write", LargeDone(self, "write", "None"))

\* pglarge.c, lines 259-287: large_seek(self, offset, whence).
large_seek(self, pgcnx, served) ==
    LargeChecked(self, pgcnx, "seek", CHECK_OPEN, served,
                 "Error while moving cursor", LargeDone(self, "seek", "int"))

\* pglarge.c, lines 294-327: large_size(self).
large_size(self, pgcnx, served) ==
    LargeChecked(self, pgcnx, "size", CHECK_OPEN, served,
                 "Error while getting current position",
                 LargeDone(self, "size", "int"))

\* pglarge.c, lines 334-352: large_tell(self).
large_tell(self, pgcnx, served) ==
    LargeChecked(self, pgcnx, "tell", CHECK_OPEN, served,
                 "Error while getting position", LargeDone(self, "tell", "int"))

\* pglarge.c, lines 359-384: large_export(self, filename).
large_export(self, pgcnx, served) ==
    LargeChecked(self, pgcnx, "export", CHECK_CLOSE, served,
                 "Error while exporting large object",
                 LargeDone(self, "export", "None"))

\* pglarge.c, lines 391-408: large_unlink(self).
large_unlink(self, pgcnx, served) ==
    LargeChecked(self, pgcnx, "unlink", CHECK_CLOSE, served,
                 "Error while unlinking large object",
                 [LargeDone(self, "unlink", "None") EXCEPT !.lo_oid = 0])

(***************************************************************************)
(* The methods of the source object                                        *)
(***************************************************************************)
CHECK_CNX == 4
CHECK_RESULT == 8
CHECK_DQL == 16

\* pgconn.c, lines 141-164: the source object of conn.source(); the
\* fields that conn_source leaves unset are read only after execute has
\* set them.
conn_source(self) ==
    [SourceIdle EXCEPT !.pc = "alive", !.valid = 1, !.op = "source",
                       !.ret = "source"]

\* pgsource.c, lines 42-67: _check_source_obj(self, level): the error
\* that is set, or none.
_check_source_obj(self, pgcnx, level) ==
    IF self.valid = 0
    THEN [exc |-> "OperationalError", err |-> "Object has been closed"]
    ELSE IF (level \div CHECK_RESULT) % 2 = 1 /\ self.result.null
    THEN [exc |-> "DatabaseError", err |-> "No result"]
    ELSE IF (level \div CHECK_DQL) % 2 = 1 /\ self.result_type # RESULT_DQL
    THEN [exc |-> "DatabaseError", err |-> "Last query did not return tuples"]
    ELSE IF (level \div CHECK_CNX) % 2 = 1 /\ ~_check_cnx_obj(pgcnx)
    THEN [exc |-> "OperationalError", err |-> "Connection has been closed"]
    ELSE NoError

SourceFail(self, op, e) ==
    [self EXCEPT !.op = op, !.ret = "NULL", !.value = PyNone, !.exc = e.exc,
                 !.err = e.err, !.reads = <<>>]

SourceDone(self, op, ret, value) ==
    [self EXCEPT !.op = op, !.ret = ret, !.value = value, !.exc = "none",
                 !.err = "", !.reads = <<>>]

\* pgsource.c, lines 128-142: source_close(self).
source_close(self) ==
    [SourceDone(self, "close", "None", PyNone) EXCEPT
        !.result = NullResult,
        !.result_type = IF self.result.null THEN @ ELSE RESULT_EMPTY,
        !.valid = 0]

\* pgsource.c, lines 104-122: source_setattr(self, "arraysize", v).
source_setattr(self, v) ==
    [SourceDone(self, "arraysize", "None", PyNone) EXCEPT !.arraysize = v]

\* pgsource.c, lines 152-256: source_execute(self, sql); exec is what the
\* server answers: the result of a query, the status of a command with or
\* without a row count, or an error.
source_execute(self, pgcnx, exec) ==
    LET e == _check_source_obj(self, pgcnx, CHECK_CNX)
        s1 == [self EXCEPT !.result = NullResult, !.max_row = 0,
                           !.current_row = 0, !.num_fields = 0,
                           !.encoding = pg_encoding_utf8]
    IN  IF e # NoError THEN SourceFail(self, "execute", e)
        ELSE IF exec.status = "PGRES_TUPLES_OK"
        THEN [SourceDone(s1, "execute", "None", PyNone) EXCEPT
                 !.result = exec.result, !.result_type = RESULT_DQL,
                 !.max_row = PQntuples(exec.result),
                 !.num_fields = PQnfields(exec.result)]
        ELSE IF exec.status = "PGRES_COMMAND_OK"
        THEN [SourceDone(s1, "execute", "int", PyInt(exec.num_rows)) EXCEPT
                 !.result = exec.result,
                 !.result_type = IF exec.num_rows >= 0 THEN RESULT_DML
                                 ELSE RESULT_DDL]
        ELSE [SourceFail(s1, "execute",
                         [exc |-> "ProgrammingError",
                          err |-> "Cannot execute command"])
                 EXCEPT !.result_type = RESULT_EMPTY]

\* pgsource.c, lines 329-351: the tuple of row k of the result.
SourceCell(self, k, j) ==
    IF PQgetisnull(self.result, k, j) THEN PyNone
    ELSE LET s == PQgetvalue(self.result, k, j)
             str == get_decoded_string(s, self.encoding)
         IN  IF str.ok THEN str.obj ELSE PyBytes(s)

SourceRow(self, k) ==
    PyTuple([j \in 1..self.num_fields |-> SourceCell(self, k, j - 1)])

\* pgsource.c, lines 310-314: the number of rows that fetch(size) reads.
SourceFetchSize(self, size) ==
    IF size = -1 \/ (self.max_row - self.current_row) < size
    THEN self.max_row - self.current_row
    ELSE size

\* A row that the result holds.
RowOfResult(res, k) == 0 <= k /\ k < PQntuples(res)

\* pgsource.c, lines 287-363: source_fetch(self, size).  A call that
\* asks libpq for a row that the result does not hold ends as "fault".
source_fetch(self, pgcnx, size) ==
    LET e == _check_source_obj(self, pgcnx,
                               CHECK_RESULT + CHECK_DQL + CHECK_CNX)
        n == SourceFetchSize(self, size)
        ks == [i \in 1..n |-> self.current_row + i - 1]
        k == IF n > 0 THEN self.current_row + n ELSE self.current_row
    IN  IF e # NoError THEN SourceFail(self, "fetch", e)
        ELSE IF self.num_fields > 0
                /\ \E i \in 1..n : ~RowOfResult(self.result, ks[i])
        THEN [SourceDone(self, "fetch", "fault", PyNone) EXCEPT
                 !.reads = ks, !.current_row = k]
        ELSE [SourceDone(self, "fetch", "list",
                         PyList([i \in 1..n |-> SourceRow(self, ks[i])]))
                 EXCEPT !.reads = IF self.num_fields > 0 THEN ks ELSE <<>>,
                        !.current_row = k]

\* pgsource.c, lines 366-394: _source_move(self, move).
_source_move(self, pgcnx, move) ==
    LET e == _check_source_obj(self, pgcnx, CHECK_RESULT + CHECK_DQL)
        op == <<"movefirst", "movelast", "movenext", "moveprev">>[move]
        done == SourceDone(self, op, "None", PyNone)
    IN  IF e # NoError THEN SourceFail(self, op, e)
        ELSE IF move = QUERY_MOVEFIRST
        THEN [done EXCEPT !.current_row = 0]
        ELSE IF move = QUERY_MOVELAST
        THEN [done EXCEPT !.current_row = self.max_row - 1]
        ELSE IF move = QUERY_MOVENEXT
        THEN [done EXCEPT !.current_row =
                              IF @ # self.max_row THEN @ + 1 ELSE @]
        ELSE IF move = QUERY_MOVEPREV
        THEN [done EXCEPT !.current_row = IF @ > 0 THEN @ - 1 ELSE @]
        ELSE done

\* pgsource.c, lines 400-434: the four move methods.
source_movefirst(self, pgcnx) == _source_move(self, pgcnx, QUERY_MOVEFIRST)
source_movelast(self, pgcnx) == _source_move(self, pgcnx, QUERY_MOVELAST)
source_movenext(self, pgcnx) == _source_move(self, pgcnx, QUERY_MOVENEXT)
source_moveprev(self, pgcnx) == _source_move(self, pgcnx, QUERY_MOVEPREV)


(***************************************************************************)
(* The functions that set the global variables of the module               *)
(***************************************************************************)
\* pgmodule.c, lines 479-502: set_decimal_point(s); None and the empty
\* string clear it, and it is one of the bytes of the list otherwise (the
\* apostrophe and the backquote of the list are left out here).
DecimalMarks == {".", ",", ";", ":", " ", "*", "/", "_", "|"}

pg_set_decimal_point(s) ==
    IF s = PyNone \/ s = PyText(<<>>) THEN [mod EXCEPT !.decimal_point = NUL]
    ELSE IF DOMAIN s = {"text"} /\ Len(s.text) = 1 /\ s.text[1] \in DecimalMarks
    THEN [mod EXCEPT !.decimal_point = s.text[1]]
    ELSE mod

\* pgmodule.c, lines 524-543: set_decimal(cls).
pg_set_decimal(cls) ==
    [mod EXCEPT !.decimal = IF cls = PyNone THEN NULLPTR ELSE cls.callable]

\* pgmodule.c, lines 565-582: set_bool(on).
pg_set_bool(i) == [mod EXCEPT !.bool_as_text = IF i # 0 THEN 0 ELSE 1]

\* pgmodule.c, lines 604-621: set_array(on).
pg_set_array(i) == [mod EXCEPT !.array_as_text = IF i # 0 THEN 0 ELSE 1]

\* pgmodule.c, lines 643-660: set_bytea_escaped(on).
pg_set_bytea_escaped(i) == [mod EXCEPT !.bytea_escaped = IF i # 0 THEN 1 ELSE 0]

\* pgmodule.c, lines 706-725: set_jsondecode(func).
pg_set_jsondecode(func) ==
    [mod EXCEPT !.jsondecode = IF func = PyNone THEN NULLPTR ELSE func.callable]

(***************************************************************************)
(* The calls of cast_array that are explored                               *)
(***************************************************************************)
Tails == [1..TailLen -> {" ", "}", ",", "1"}]

ArrAlphabet == {"{", "}", ",", "\"", "\\", " ", "1"}

\* Any short string, and any short body after a left brace.
BodyAlphabet == {"{", "}", ",", "\"", "1"}

RawArrays ==
    Strings(ArrAlphabet, MaxRaw) \cup {<<"{">> \o w : w \in Strings(BodyAlphabet, MaxBody)}

RECURSIVE Join(_, _)
Join(qs, sep) ==
    IF qs = <<>> THEN <<>>
    ELSE IF Len(qs) = 1 THEN qs[1]
    ELSE qs[1] \o sep \o Join(Tail(qs), sep)

\* The leaves of a rendered array are taken in turn from a palette.
Palettes ==
    { << <<"1">>, <<"2">>, <<"3">>, <<"4">> >>,
      << <<"1">>, <<"N", "U", "L", "L">>, <<"3">>, <<"\"", "2", "\"">>, <<"n", "u", "l", "l">>,
         <<"1", "2">> >>,
      << <<"a", " ", "b">>, <<"\"", "N", "U", "L", "L", "\"">>, <<"\"", ",", "\"">>,
         <<"\\", "}">> >> }

Leaf(pal, i) == pal[((i - 1) % Len(pal)) + 1]

\* A list of n leaves, the first of them leaf number i of the palette.
RenderLeaves(pal, i, n, open, sep, close) ==
    open \o Join([k \in 1..n |-> Leaf(pal, i + k - 1)], sep) \o close

RECURSIVE Sum(_, _)
Sum(q, n) == IF n = 0 THEN 0 ELSE q[n] + Sum(q, n - 1)

\* One-dimensional arrays of n leaves; two-dimensional arrays whose rows
\* hold ns[1], ns[2], ... leaves; either closely written or with blanks.
Styles ==
    { [open |-> <<"{">>, sep |-> <<",">>, close |-> <<"}">>],
      [open |-> <<" ", "{", " ">>, sep |-> <<" ", ",", " ">>, close |-> <<" ", "}", " ">>] }

MaxWidth == 3
MaxRows == 2

Rendered1 ==
    { RenderLeaves(pal, 1, n, st.open, st.sep, st.close) :
        pal \in Palettes, n \in 0..MaxWidth, st \in Styles }

Rendered2 ==
    { st.open \o Join([k \in 1..Len(ns) |->
                         RenderLeaves(pal, 1 + Sum(ns, k - 1), ns[k],
                                      st.open, st.sep, st.close)], st.sep)
        \o st.close :
        pal \in Palettes, ns \in Strings(0..MaxWidth, MaxRows) \ {<<>>},
        st \in Styles }

\* Chains of d left braces, one element and e right braces.
Chains ==
    { Repeat("{", d) \o <<"1">> \o Repeat("}", e) :
        d \in 1..MaxNest, e \in 0..MaxNest }

\* Dimension ranges, well-formed and not, before a body.
RangeTexts ==
    { <<"[", "1", ":", "2", "]">>, <<"[", " ", "-", "1", ":", "+", "0", "]", " ">>,
      <<"[", "1", "]">>, <<"[", "1", " ", ":", "2", "]">>, <<"[", ":", "2", "]">>,
      <<"[", "1", ":", "2">> }

DimBodies ==
    { <<"{", "1", ",", "2", "}">>, <<"{", "{", "1", "}", ",", "{", "2", "}", "}">>,
      <<"{", "{", "{", "1", "}", "}", "}">>, <<"{", "1", ",", "{">>, <<"1">>,
      <<"{", "\"", "1">>, <<"{", "}", "}">> }

MaxRanges == 2

Dimensioned ==
    { Join(rs, <<>>) \o eq \o b :
        rs \in Strings(RangeTexts, MaxRanges) \ {<<>>},
        eq \in {<<"=">>, <<"=", " ">>, <<>>}, b \in DimBodies }

\* Elements that are, or nearly are, the word NULL.
NullLen == 4

\* The spellings, in either letter case, of n, nu, nul, null, nulll, ...
NullWords ==
    { w \in Strings({"N", "n", "U", "u", "L", "l"}, NullLen) :
        \A k \in 1..Len(w) :
            Lower(w[k]) = (IF k = 1 THEN "n" ELSE IF k = 2 THEN "u" ELSE "l") }

NullArrays ==
    { <<"{">> \o x.pre \o w \o x.post \o <<"}">> :
        w \in NullWords,
        x \in { [pre |-> <<>>, post |-> <<>>], [pre |-> <<" ">>, post |-> <<" ">>],
                [pre |-> <<"\"">>, post |-> <<"\"">>],
                [pre |-> <<"\\">>, post |-> <<>>],
                [pre |-> <<"1", ",">>, post |-> <<",", "1">>] } }

\* From a result column: a type, no callable, no delimiter.
\* From pg.cast_array(): no type, an optional callable, a delimiter.
RenderedExt ==
    { RenderLeaves(pal, 1, n, <<"{">>, sep, <<"}">>) :
        pal \in Palettes, n \in 0..MaxWidth, sep \in {<<",">>, <<";">>} }

ExtArrays == Strings({"{", "}", ",", ";", "1"}, MaxRaw)

\* Two rows of two leaves for pg.cast_array() with a callable: numbers and
\* NULL in both cases, or texts, quoted and escaped.
NestedExt ==
    { <<"{">> \o RenderLeaves(pal, 1, 2, <<"{">>, sep, <<"}">>) \o sep
              \o RenderLeaves(pal, 3, 2, <<"{">>, sep, <<"}">>) \o <<"}">> :
        pal \in { << <<"1">>, <<"n", "u", "l", "l">>, <<"N", "U", "L", "L">>, <<"2">> >>,
                  << <<"a", " ", "b">>, <<"\"", "N", "U", "L", "L", "\"">>,
                     <<"\"", ",", "\"">>, <<"\\", "}">> >> },
        sep \in {<<",">>, <<";">>} }

(***************************************************************************)
(* The steps of cast_array                                                 *)
(***************************************************************************)
\* A step that reads the bytes after the terminator finds there what the
\* tail holds; the tail is chosen when it is first read.
ArrayStepTo(p) ==
    IF cast_array_step(p).ret = "fault" /\ p.tail = <<>>
    THEN {cast_array_step([p EXCEPT !.tail = tl]) : tl \in Tails}
    ELSE {cast_array_step(p)}

ArrayArgs ==
    /\ arr.pc = "args"
    /\ arr' = cast_array_args(arr)
    /\ UNCHANGED <<rec, hs, mod, qry, conn, lo, source, simple>>

ArrayDims ==
    /\ arr.pc = "dims"
    /\ arr' = cast_array_dims(arr)
    /\ UNCHANGED <<rec, hs, mod, qry, conn, lo, source, simple>>

ArrayDepth ==
    /\ arr.pc = "depth"
    /\ arr' = cast_array_depth(arr)
    /\ UNCHANGED <<rec, hs, mod, qry, conn, lo, source, simple>>

ArrayLoop ==
    /\ arr.pc = "loop"
    /\ arr' \in ArrayStepTo(arr)
    /\ UNCHANGED <<rec, hs, mod, qry, conn, lo, source, simple>>

ArrayEnd ==
    /\ arr.pc = "end"
    /\ arr' \in ArrayStepTo(arr)
    /\ UNCHANGED <<rec, hs, mod, qry, conn, lo, source, simple>>

InitArray ==
    /\ \/ \E str \in RawArrays \cup Rendered1 \cup Rendered2,
              type \in {PYGRES_INT + PYGRES_ARRAY, PYGRES_TEXT + PYGRES_ARRAY} :
              arr = ArrayCall(str, pg_encoding_utf8, type, NULLPTR, NUL)
       \/ \E str \in Chains \cup Dimensioned :
              arr = ArrayCall(str, pg_encoding_utf8, PYGRES_INT + PYGRES_ARRAY,
                              NULLPTR, NUL)
       \/ \E str \in NullArrays :
              arr = ArrayCall(str, pg_encoding_utf8, PYGRES_TEXT + PYGRES_ARRAY,
                              NULLPTR, NUL)
       \/ \E str \in ExtArrays, delim \in {NUL, ",", ";", "{", "}", "\\"} :
              arr = ArrayCall(str, pg_encoding_utf8, 0, NULLPTR, delim)
       \/ \E str \in RenderedExt,
              encoding \in {pg_encoding_ascii, pg_encoding_utf8},
              cast \in {NULLPTR} \cup Callables,
              delim \in {NUL, ",", ";", "{", "}", "\\"} :
              arr = ArrayCall(str, encoding, 0, cast, delim)
       \/ \E str \in NestedExt, cast \in Callables, delim \in {NUL, ",", ";"} :
              arr = ArrayCall(str, pg_encoding_utf8, 0, cast, delim)
    /\ rec = RecordIdle
    /\ hs = HstoreIdle
    /\ mod = ModuleInit
    /\ qry = QueryIdle
    /\ conn = ConnOpen
    /\ lo = LargeIdle
    /\ source = SourceIdle
    /\ simple = SimpleIdle

NextArray == ArrayArgs \/ ArrayDims \/ ArrayDepth \/ ArrayLoop \/ ArrayEnd

SpecArray == InitArray /\ [][NextArray]_vars

(***************************************************************************)
(* The calls of cast_record that are explored, and its steps               *)
(***************************************************************************)
RecAlphabet == {"(", ")", ",", "\"", "\\", " ", "1"}

\* The fields: empty, 1, "", ",""\)" and NULL.
RecFields ==
    << <<>>, <<"1">>, <<"\"", "\"">>,
       <<"\"", ",", "\"", "\"", "\\", ")", "\"">>,
       <<"N", "U", "L", "L">> >>

RecordLiterals ==
    { <<"(">> \o Join([k \in 1..Len(fs) |-> RecFields[fs[k]]], <<",">>) \o <<")">> :
        fs \in Strings(1..Len(RecFields), MaxFields) \ {<<>>} }

CastTuples ==
    {PyTuple(q) :
        q \in Strings({PyNone, PyCallable("int"), PyCallable("tag")}, MaxFields)}

RecordArgs ==
    /\ rec.pc = "args"
    /\ rec' = cast_record_args(rec)
    /\ UNCHANGED <<arr, hs, mod, qry, conn, lo, source, simple>>

RecordStart ==
    /\ rec.pc = "start"
    /\ rec' = cast_record_start(rec)
    /\ UNCHANGED <<arr, hs, mod, qry, conn, lo, source, simple>>

RecordLoop ==
    /\ rec.pc = "loop"
    /\ rec' = cast_record_loop(rec)
    /\ UNCHANGED <<arr, hs, mod, qry, conn, lo, source, simple>>

RecordEnd ==
    /\ rec.pc = "end"
    /\ rec' = cast_record_end(rec)
    /\ UNCHANGED <<arr, hs, mod, qry, conn, lo, source, simple>>

InitRecord ==
    /\ \/ \E str \in Strings(RecAlphabet, MaxRaw),
              delim \in {NUL, ",", ";", "(", ")", "\\"} :
              rec = pg_cast_record(str, FALSE, NoObject, delim)
       \/ \E str \in Strings(RecAlphabet, MaxRaw),
              cast_obj \in {NoObject, PyNone, PyCallable("int")} :
              rec = pg_cast_record(str, TRUE, cast_obj, ",")
       \/ \E str \in RecordLiterals,
              cast_obj \in CastTuples
                           \cup {NoObject, PyCallable("int"), PyCallable("tag")} :
              rec = pg_cast_record(str, FALSE, cast_obj, ",")
    /\ arr = ArrayIdle
    /\ hs = HstoreIdle
    /\ mod = ModuleInit
    /\ qry = QueryIdle
    /\ conn = ConnOpen
    /\ lo = LargeIdle
    /\ source = SourceIdle
    /\ simple = SimpleIdle

NextRecord == RecordArgs \/ RecordStart \/ RecordLoop \/ RecordEnd

SpecRecord == InitRecord /\ [][NextRecord]_vars

(***************************************************************************)
(* The calls of cast_hstore that are explored, and its steps               *)
(***************************************************************************)
HsAlphabet == {"a", "=", ">", ",", "\"", "\\", " "}

\* The pairs: a=>1, "a"=>"1", b=>NULL, "b"=>"NULL", a=>null, a=>"b,
\* NULL=>\1\, a = > 1 and "b"=>NULL.
HsPairs ==
    << <<"a", "=", ">", "1">>,
       <<"\"", "a", "\"", "=", ">", "\"", "1", "\"">>,
       <<"b", "=", ">", "N", "U", "L", "L">>,
       <<"\"", "b", "\"", " ", "=", ">", " ", "\"", "N", "U", "L", "L", "\"">>,
       <<"a", "=", ">", "n", "u", "l", "l">>,
       <<"a", "=", ">", "\"", "b">>,
       <<"N", "U", "L", "L", "=", ">", "\\", "1", "\\">>,
       <<"a", " ", "=", " ", ">", "1">>,
       <<"\"", "b", "\"", "=", ">", "N", "U", "L", "L">> >>

HstoreLiterals ==
    { Join([k \in 1..Len(ps) |-> HsPairs[ps[k]]], sep) \o trail :
        ps \in Strings(1..Len(HsPairs), MaxPairs) \ {<<>>},
        sep \in {<<",">>, <<",", " ">>}, trail \in {<<>>, <<",">>} }

HstoreNulls ==
    { <<"a", "=", ">">> \o q \o w \o q :
        w \in NullWords, q \in {<<>>, <<"\"">>} }

\* Bytes objects with a byte above 0x7F: \xFF=>1, a=>\xFF and "\xFF"=>NULL.
HstoreHigh ==
    { <<HighByte, "=", ">", "1">>, <<"a", "=", ">", HighByte>>,
      <<"\"", HighByte, "\"", "=", ">", "N", "U", "L", "L">>,
      <<"a", "=", ">", "1", ",", HighByte, "=", ">", "\"">> }

\* What a byte of the copy holds that was never written.
Uninitialized == {"?", HighByte}

HstoreNew ==
    /\ hs.pc = "new"
    /\ hs' = cast_hstore_new(hs)
    /\ UNCHANGED <<arr, rec, mod, qry, conn, lo, source, simple>>

HstoreKey ==
    /\ hs.pc = "key"
    /\ \E u \in Uninitialized : hs' = cast_hstore_key(hs, u)
    /\ UNCHANGED <<arr, rec, mod, qry, conn, lo, source, simple>>

HstoreArrow ==
    /\ hs.pc = "arrow"
    /\ hs' = cast_hstore_arrow(hs)
    /\ UNCHANGED <<arr, rec, mod, qry, conn, lo, source, simple>>

HstoreValue ==
    /\ hs.pc = "value"
    /\ \E u \in Uninitialized : hs' = cast_hstore_value(hs, u)
    /\ UNCHANGED <<arr, rec, mod, qry, conn, lo, source, simple>>

HstoreNext ==
    /\ hs.pc = "next"
    /\ hs' = cast_hstore_next(hs)
    /\ UNCHANGED <<arr, rec, mod, qry, conn, lo, source, simple>>

InitHstore ==
    /\ \/ \E str \in Strings(HsAlphabet, MaxRaw) \cup HstoreLiterals
                        \cup HstoreNulls, isbytes \in BOOLEAN :
              hs = pg_cast_hstore(str, isbytes)
       \/ \E str \in HstoreHigh : hs = pg_cast_hstore(str, TRUE)
    /\ arr = ArrayIdle
    /\ rec = RecordIdle
    /\ mod = ModuleInit
    /\ qry = QueryIdle
    /\ conn = ConnOpen
    /\ lo = LargeIdle
    /\ source = SourceIdle
    /\ simple = SimpleIdle

NextHstore == HstoreNew \/ HstoreKey \/ HstoreArrow \/ HstoreValue \/ HstoreNext

SpecHstore == InitHstore /\ [][NextHstore]_vars

(***************************************************************************)
(* The query objects that are explored                                     *)
(***************************************************************************)
MaxMoney == 2

MoneyAlphabet == {"1", ".", ",", "-", "(", "$"}

\* The texts of money values: every short one, and some longer ones.
MoneyTexts ==
    Strings(MoneyAlphabet, MaxMoney)
        \cup {<<"$", "1", ",", "0", "0", "0", ".", "5", "0">>,
              <<"(", "$", "1", ".", "5", ")">>,
              <<"-", "$", "1", ".", "5">>,
              <<"1", ".", "5", " ", "k", "r">>}

\* An array of one quoted element.
QuotedArray(q) == <<"{", "\"">> \o q \o <<"\"", "}">>

\* What the stack holds where it was not written.
Junk == {<<>>, <<"9">>, <<"?">>}

QueryInput(result, encoding, cast_hook) ==
    [result |-> result, encoding |-> encoding, cast_hook |-> cast_hook]

\* Results with numbers, texts and NULLs.
PlainResults ==
    {PGresult(<<"INT4OID", "TEXTOID">>,
              << <<Cell(<<"1">>), Cell(<<"a">>)>>, <<SqlNull, SqlNull>> >>),
     PGresult(<<"BOOLOID", "NUMERICOID">>,
              << <<Cell(<<"t">>), Cell(<<"1", ".", "5">>)>>,
                 <<SqlNull, Cell(<<"x">>)>> >>),
     PGresult(<<"INT4OID">>, <<>>)}

\* Results with columns whose type depends on the global variables.
ConfiguredResults ==
    {PGresult(<<"BYTEAOID", "JSONOID">>,
              << <<Cell(<<"\\", "x", "6", "1">>), Cell(<<"1">>)>>,
                 <<SqlNull, SqlNull>>,
                 <<Cell(<<"a">>), Cell(<<"a">>)>> >>),
     PGresult(<<"INT4ARRAYOID", "JSONBARRAYOID">>,
              << <<Cell(<<"{", "1", ",", "N", "U", "L", "L", "}">>),
                   Cell(<<"{", "1", ",", "n", "u", "l", "l", "}">>)>>,
                 <<SqlNull, SqlNull>> >>)}

\* Results with a column of a type that get_type does not know.
OtherResults ==
    {PGresult(<<"POINTOID", "INT8OID">>,
              << <<Cell(<<"(", "1", ",", "2", ")">>), Cell(<<"2">>)>>,
                 <<SqlNull, Cell(<<"3">>)>> >>)}

\* Results with a text that has a byte above 127.
HighResult(oid) == PGresult(<<oid>>, << <<Cell(<<"a", HighByte>>)>> >>)

\* Results with a money value, and with an array of one money value.
MoneyResults ==
    {PGresult(<<"CASHOID">>, << <<Cell(m)>> >>) : m \in MoneyTexts}
        \cup {PGresult(<<"MONEYARRAYOID">>, << <<Cell(QuotedArray(m))>> >>) :
                 m \in {<<"$", "1", ".", "5">>, <<"(", "1", ",", "5", ")">>,
                        <<"-", "1">>, <<"$">>}}

QueryInputs ==
    {QueryInput(r, pg_encoding_utf8, NULLPTR) :
        r \in PlainResults \cup ConfiguredResults}
        \cup {QueryInput(r, pg_encoding_utf8, h) :
                 r \in OtherResults, h \in {NULLPTR, "hook"}}
        \cup {QueryInput(HighResult("TEXTOID"), e, NULLPTR) :
                 e \in {pg_encoding_utf8, pg_encoding_latin1}}
        \cup {QueryInput(HighResult("POINTOID"), pg_encoding_utf8, h) :
                 h \in {NULLPTR, "hook"}}
        \cup {QueryInput(HighResult(oid), pg_encoding_utf8, NULLPTR) :
                 oid \in {"JSONOID", "TEXTARRAYOID"}}

\* The results of the statements of one call of send_query.
AsyncInputs ==
    {QueryInput(<<PGresult(<<"CASHOID">>, << <<Cell(<<"$", "1">>)>> >>)>>,
                pg_encoding_utf8, NULLPTR),
     QueryInput(<<PGresult(<<"CASHOID">>, << <<Cell(<<"$", "1">>)>> >>),
                  PGresult(<<"JSONOID", "INT4OID">>,
                           << <<Cell(<<"1">>), SqlNull>> >>)>>,
                pg_encoding_utf8, NULLPTR)}

\* No call of a parser is under way: a function of the module runs to its
\* end before the next one is called.
NoParserCall ==
    /\ arr = ArrayIdle /\ rec = RecordIdle /\ hs = HstoreIdle
    /\ simple.sized = NoOutcome /\ simple.unsized = NoOutcome

\* conn.query(sql)
ConnQuery ==
    /\ NoParserCall
    /\ qry.pc = "idle"
    /\ \E in \in QueryInputs :
          qry' = conn_query(in.result, in.encoding, in.cast_hook)
    /\ UNCHANGED <<arr, rec, hs, mod, conn, lo, source, simple>>

\* conn.send_query(sql)
ConnSendQuery ==
    /\ NoParserCall
    /\ qry.pc = "idle"
    /\ \E in \in AsyncInputs :
          qry' = conn_send_query(in.result, in.encoding, in.cast_hook)
    /\ UNCHANGED <<arr, rec, hs, mod, conn, lo, source, simple>>

\* q[i]
QueryGetitem ==
    /\ qry.pc = "alive"
    /\ \E i \in -1..3, junk \in Junk : qry' = query_getitem(qry, i, junk)
    /\ UNCHANGED <<arr, rec, hs, mod, conn, lo, source, simple>>

\* iter(q)
QueryIter ==
    /\ qry.pc = "alive"
    /\ qry' = query_iter(qry)
    /\ UNCHANGED <<arr, rec, hs, mod, conn, lo, source, simple>>

\* next(q)
QueryNext ==
    /\ qry.pc = "alive"
    /\ \E junk \in Junk : qry' = query_next(qry, junk)
    /\ UNCHANGED <<arr, rec, hs, mod, conn, lo, source, simple>>

\* q.one()
QueryOne ==
    /\ qry.pc = "alive"
    /\ \E junk \in Junk : qry' = query_one(qry, junk)
    /\ UNCHANGED <<arr, rec, hs, mod, conn, lo, source, simple>>

\* q.getresult()
QueryGetresult ==
    /\ qry.pc = "alive"
    /\ \E junk \in Junk : qry' = query_getresult(qry, junk)
    /\ UNCHANGED <<arr, rec, hs, mod, conn, lo, source, simple>>

\* q.onenamed()
QueryOnenamed ==
    /\ qry.pc = "alive"
    /\ qry' = query_onenamed(qry)
    /\ UNCHANGED <<arr, rec, hs, mod, conn, lo, source, simple>>

\* The last reference to the query object is dropped.
QueryDealloc ==
    /\ qry.pc = "alive"
    /\ qry' = QueryIdle
    /\ UNCHANGED <<arr, rec, hs, mod, conn, lo, source, simple>>

\* pg.set_decimal_point(s)
SetDecimalPoint ==
    /\ NoParserCall
    /\ \E s \in {PyNone, PyText(<<".">>), PyText(<<",">>), PyText(<<"1">>)} :
          mod' = pg_set_decimal_point(s)
    /\ UNCHANGED <<arr, rec, hs, qry, conn, lo, source, simple>>

\* pg.set_decimal(cls)
SetDecimal ==
    /\ NoParserCall
    /\ \E cls \in {PyNone, PyCallable("Decimal")} : mod' = pg_set_decimal(cls)
    /\ UNCHANGED <<arr, rec, hs, qry, conn, lo, source, simple>>

\* pg.set_bool(on)
SetBool ==
    /\ NoParserCall
    /\ \E i \in {0, 1} : mod' = pg_set_bool(i)
    /\ UNCHANGED <<arr, rec, hs, qry, conn, lo, source, simple>>

\* pg.set_array(on)
SetArray ==
    /\ NoParserCall
    /\ \E i \in {0, 1} : mod' = pg_set_array(i)
    /\ UNCHANGED <<arr, rec, hs, qry, conn, lo, source, simple>>

\* pg.set_bytea_escaped(on)
SetByteaEscaped ==
    /\ NoParserCall
    /\ \E i \in {0, 1} : mod' = pg_set_bytea_escaped(i)
    /\ UNCHANGED <<arr, rec, hs, qry, conn, lo, source, simple>>

\* pg.set_jsondecode(func)
SetJsondecode ==
    /\ NoParserCall
    /\ \E func \in {PyNone, PyCallable("json")} : mod' = pg_set_jsondecode(func)
    /\ UNCHANGED <<arr, rec, hs, qry, conn, lo, source, simple>>

InitQuery ==
    /\ arr = ArrayIdle
    /\ rec = RecordIdle
    /\ hs = HstoreIdle
    /\ mod = ModuleInit
    /\ qry = QueryIdle
    /\ conn = ConnOpen
    /\ lo = LargeIdle
    /\ source = SourceIdle
    /\ simple = SimpleIdle

NextQuery ==
    \/ ConnQuery \/ ConnSendQuery \/ QueryGetitem \/ QueryIter \/ QueryNext
    \/ QueryOne \/ QueryGetresult \/ QueryOnenamed \/ QueryDealloc
    \/ SetDecimalPoint \/ SetDecimal \/ SetBool \/ SetArray \/ SetByteaEscaped
    \/ SetJsondecode

SpecQuery == InitQuery /\ [][NextQuery]_vars

\* The query objects with money values, under every setting of the
\* decimal type and of the decimal point.
ConnQueryMoney ==
    /\ NoParserCall
    /\ qry.pc = "idle"
    /\ \E r \in MoneyResults : qry' = conn_query(r, pg_encoding_utf8, NULLPTR)
    /\ UNCHANGED <<arr, rec, hs, mod, conn, lo, source, simple>>

NextMoney ==
    \/ ConnQueryMoney \/ QueryGetitem \/ QueryGetresult \/ QueryDealloc
    \/ SetDecimalPoint \/ SetDecimal

SpecMoney == InitQuery /\ [][NextMoney]_vars

\* The calls of the three parsers and the query objects together.
InitAll == InitArray \/ InitRecord \/ InitHstore \/ InitQuery

NextAll == NextArray \/ NextRecord \/ NextHstore \/ NextQuery

SpecAll == InitAll /\ [][NextAll]_vars

(***************************************************************************)
(* The calls on a large object that are explored                           *)
(***************************************************************************)
\* The descriptors that lo_open returns, -1 when it fails.
Descriptors == {-1, 0, 1}

\* conn.getlo(oid)
ConnGetlo ==
    /\ lo.pc = "none"
    /\ \E oid \in {0, 1} :
          /\ conn' = IF conn_getattr_refused(conn, "getlo")
                     THEN conn_getattr(conn, "getlo") ELSE conn_getlo(conn, oid)
          /\ lo' = IF conn'.ret = "large" THEN large_new(oid) ELSE lo
    /\ UNCHANGED <<arr, rec, hs, mod, qry, source, simple>>

\* conn.close()
ConnClose ==
    /\ conn' = conn_close(conn)
    /\ qry' = IF conn.cnx # NULLPTR THEN [qry EXCEPT !.pending = <<>>] ELSE qry
    /\ UNCHANGED <<arr, rec, hs, mod, lo, source, simple>>

LargeOpen ==
    /\ lo.pc = "alive"
    /\ \E fd \in Descriptors : lo' = large_open(lo, conn, fd)
    /\ UNCHANGED <<arr, rec, hs, mod, qry, conn, source, simple>>

LargeClose ==
    /\ lo.pc = "alive"
    /\ \E served \in BOOLEAN : lo' = large_close(lo, conn, served)
    /\ UNCHANGED <<arr, rec, hs, mod, qry, conn, source, simple>>

LargeRead ==
    /\ lo.pc = "alive"
    /\ \E size \in {0, 1}, served \in BOOLEAN :
          lo' = large_read(lo, conn, size, served)
    /\ UNCHANGED <<arr, rec, hs, mod, qry, conn, source, simple>>

LargeWrite ==
    /\ lo.pc = "alive"
    /\ \E served \in BOOLEAN : lo' = large_write(lo, conn, served)
    /\ UNCHANGED <<arr, rec, hs, mod, qry, conn, source, simple>>

LargeSeek ==
    /\ lo.pc = "alive"
    /\ \E served \in BOOLEAN : lo' = large_seek(lo, conn, served)
    /\ UNCHANGED <<arr, rec, hs, mod, qry, conn, source, simple>>

LargeSize ==
    /\ lo.pc = "alive"
    /\ \E served \in BOOLEAN : lo' = large_size(lo, conn, served)
    /\ UNCHANGED <<arr, rec, hs, mod, qry, conn, source, simple>>

LargeTell ==
    /\ lo.pc = "alive"
    /\ \E served \in BOOLEAN : lo' = large_tell(lo, conn, served)
    /\ UNCHANGED <<arr, rec, hs, mod, qry, conn, source, simple>>

LargeExport ==
    /\ lo.pc = "alive"
    /\ \E served \in BOOLEAN : lo' = large_export(lo, conn, served)
    /\ UNCHANGED <<arr, rec, hs, mod, qry, conn, source, simple>>

LargeUnlink ==
    /\ lo.pc = "alive"
    /\ \E served \in BOOLEAN : lo' = large_unlink(lo, conn, served)
    /\ UNCHANGED <<arr, rec, hs, mod, qry, conn, source, simple>>

NextLarge ==
    \/ ConnGetlo \/ ConnClose \/ LargeOpen \/ LargeClose \/ LargeRead
    \/ LargeWrite \/ LargeSeek \/ LargeSize \/ LargeTell \/ LargeExport
    \/ LargeUnlink

SpecLarge == InitQuery /\ [][NextLarge]_vars

(***************************************************************************)
(* The query objects whose rows are read in turn                           *)
(***************************************************************************)
MaxCursorRows == 3

\* A result of n rows of one int4 column, holding 1, 2, ...
CursorResult(n) ==
    PGresult(<<"INT4OID">>, [k \in 1..n |-> <<Cell(<<Digits[k + 1]>>)>>])

\* The results of the statements of one call of send_query: one or two
\* results of 0 to MaxCursorRows rows.
CursorPending ==
    {<<CursorResult(a)>> : a \in 0..MaxCursorRows}
        \cup {<<CursorResult(a), CursorResult(b)>> :
                 a \in 0..MaxCursorRows, b \in 0..MaxCursorRows}

\* conn.query(sql), which conn_getattr refuses on a closed connection.
ConnQueryRows ==
    /\ qry.pc = "idle"
    /\ \E n \in 0..MaxCursorRows :
          IF conn_getattr_refused(conn, "query")
          THEN conn' = conn_getattr(conn, "query") /\ qry' = qry
          ELSE /\ conn' = ConnDone(conn, "query", "query")
               /\ qry' = conn_query(CursorResult(n), pg_encoding_utf8, NULLPTR)
    /\ UNCHANGED <<arr, rec, hs, mod, lo, source, simple>>

\* conn.send_query(sql)
ConnSendQueryRows ==
    /\ qry.pc = "idle"
    /\ \E pending \in CursorPending :
          IF conn_getattr_refused(conn, "send_query")
          THEN conn' = conn_getattr(conn, "send_query") /\ qry' = qry
          ELSE /\ conn' = ConnDone(conn, "send_query", "query")
               /\ qry' = conn_send_query(pending, pg_encoding_utf8, NULLPTR)
    /\ UNCHANGED <<arr, rec, hs, mod, lo, source, simple>>

\* q.single()
QuerySingle ==
    /\ qry.pc = "alive"
    /\ \E junk \in Junk : qry' = query_single(qry, junk)
    /\ UNCHANGED <<arr, rec, hs, mod, conn, lo, source, simple>>

\* q.scalarresult()
QueryScalarresult ==
    /\ qry.pc = "alive"
    /\ \E junk \in Junk : qry' = query_scalarresult(qry, junk)
    /\ UNCHANGED <<arr, rec, hs, mod, conn, lo, source, simple>>

NextCursor ==
    \/ ConnQueryRows \/ ConnSendQueryRows \/ QueryGetitem \/ QueryIter
    \/ QueryNext \/ QueryOne \/ QuerySingle \/ QueryGetresult
    \/ QueryScalarresult \/ QueryOnenamed \/ QueryDealloc

SpecCursor == InitQuery /\ [][NextCursor]_vars

(***************************************************************************)
(* The calls on a connection that is closed at some time                   *)
(***************************************************************************)
\* The methods of the connection that are looked up and called.
ConnNames == {"fileno", "get_cast_hook"}

\* conn.name, the method looked up and held.
ConnGetattr ==
    /\ \E name \in ConnNames : conn' = conn_getattr(conn, name)
    /\ UNCHANGED <<arr, rec, hs, mod, qry, lo, source, simple>>

\* A method that is held is called.
ConnCallBound ==
    /\ \E name \in conn.bound :
          conn' = IF name = "fileno" THEN conn_fileno(conn)
                  ELSE conn_get_cast_hook(conn)
    /\ UNCHANGED <<arr, rec, hs, mod, qry, lo, source, simple>>

NextConn ==
    \/ ConnQueryRows \/ ConnSendQueryRows \/ QueryOne \/ QueryGetresult
    \/ ConnClose \/ ConnGetattr \/ ConnCallBound \/ ConnGetlo \/ LargeOpen
    \/ LargeClose

SpecConn == InitQuery /\ [][NextConn]_vars

(***************************************************************************)
(* The calls of a source object                                            *)
(***************************************************************************)
\* What the server answers to execute(sql): the rows of a query, the
\* status of a command with a row count (1) or without (-1), an error.
SourceExecs ==
    {[status |-> "PGRES_TUPLES_OK", result |-> CursorResult(n), num_rows |-> 0] :
        n \in 0..MaxCursorRows}
    \cup {[status |-> "PGRES_COMMAND_OK", result |-> PGresult(<<>>, <<>>),
           num_rows |-> r] : r \in {-1, 1}}
    \cup {[status |-> "PGRES_FATAL_ERROR", result |-> NullResult, num_rows |-> 0]}

\* conn.source()
ConnSource ==
    /\ source.pc = "none"
    /\ IF conn_getattr_refused(conn, "source")
       THEN conn' = conn_getattr(conn, "source") /\ source' = source
       ELSE /\ conn' = ConnDone(conn, "source", "source")
            /\ source' = conn_source(conn)
    /\ UNCHANGED <<arr, rec, hs, mod, qry, lo, simple>>

\* src.execute(sql)
SourceExecute ==
    /\ source.pc = "alive"
    /\ \E exec \in SourceExecs : source' = source_execute(source, conn, exec)
    /\ UNCHANGED <<arr, rec, hs, mod, qry, conn, lo, simple>>

\* src.fetch() and src.fetch(size)
SourceFetch ==
    /\ source.pc = "alive"
    /\ \E size \in {source.arraysize, -1, 0, 1, 2} :
          source' = source_fetch(source, conn, size)
    /\ UNCHANGED <<arr, rec, hs, mod, qry, conn, lo, simple>>

\* src.movefirst()
SourceMovefirst ==
    /\ source.pc = "alive"
    /\ source' = source_movefirst(source, conn)
    /\ UNCHANGED <<arr, rec, hs, mod, qry, conn, lo, simple>>

\* src.movelast()
SourceMovelast ==
    /\ source.pc = "alive"
    /\ source' = source_movelast(source, conn)
    /\ UNCHANGED <<arr, rec, hs, mod, qry, conn, lo, simple>>

\* src.movenext()
SourceMovenext ==
    /\ source.pc = "alive"
    /\ source' = source_movenext(source, conn)
    /\ UNCHANGED <<arr, rec, hs, mod, qry, conn, lo, simple>>

\* src.moveprev()
SourceMoveprev ==
    /\ source.pc = "alive"
    /\ source' = source_moveprev(source, conn)
    /\ UNCHANGED <<arr, rec, hs, mod, qry, conn, lo, simple>>

\* src.arraysize = v
SourceSetattr ==
    /\ source.pc = "alive"
    /\ \E v \in {1, 2} : source' = source_setattr(source, v)
    /\ UNCHANGED <<arr, rec, hs, mod, qry, conn, lo, simple>>

\* src.close()
SourceClose ==
    /\ source.pc = "alive"
    /\ source' = source_close(source)
    /\ UNCHANGED <<arr, rec, hs, mod, qry, conn, lo, simple>>

NextSource ==
    \/ ConnSource
    \/ SourceExecute
    \/ SourceFetch
    \/ SourceMovefirst
    \/ SourceMovelast
    \/ SourceMovenext
    \/ SourceMoveprev
    \/ SourceSetattr
    \/ SourceClose
    \/ ConnClose

SpecSource == InitQuery /\ [][NextSource]_vars

(***************************************************************************)
(* The two casters of simple values called with the same content           *)
(***************************************************************************)
\* The longest content that fits into buf with its terminator.
MaxSimple == BUF_SIZE - 1

SimpleCastTags ==
    {PYGRES_INT, PYGRES_LONG, PYGRES_FLOAT, PYGRES_DECIMAL, PYGRES_MONEY,
     PYGRES_BOOL}

SimpleTexts ==
    { <<>>, <<"1">>, <<"-", "1">>, <<" ", "1">>, <<"t">>, <<"f">>,
      <<"t", "r", "u", "e">>, <<"1", ".", "5">>, <<"1", ",", "5">>,
      <<"(", "1", ")">>, <<"$", "1">>, <<"x">>,
      Repeat(" ", MaxSimple - 1) \o <<"1">> }

InitSimple ==
    /\ \E s \in SimpleTexts, type \in SimpleCastTags, junk \in Junk :
          simple = SimpleCall(s, type, junk)
    /\ arr = ArrayIdle
    /\ rec = RecordIdle
    /\ hs = HstoreIdle
    /\ mod = ModuleInit
    /\ qry = QueryIdle
    /\ conn = ConnOpen
    /\ lo = LargeIdle
    /\ source = SourceIdle

\* cast_sized_simple(s, size, type)
CastSizedSimple ==
    /\ simple.pc = "args"
    /\ simple.sized = NoOutcome
    /\ simple' = [simple EXCEPT
                     !.sized = cast_sized_simple(simple.s, simple.type,
                                                 simple.junk)]
    /\ UNCHANGED <<arr, rec, hs, mod, qry, conn, lo, source>>

\* cast_unsized_simple(s, type)
CastUnsizedSimple ==
    /\ simple.pc = "args"
    /\ simple.unsized = NoOutcome
    /\ simple' = [simple EXCEPT
                     !.unsized = cast_unsized_simple(simple.s, simple.type)]
    /\ UNCHANGED <<arr, rec, hs, mod, qry, conn, lo, source>>

NextSimple ==
    \/ CastSizedSimple
    \/ CastUnsizedSimple
    \/ SetDecimalPoint
    \/ SetDecimal
    \/ SetBool

SpecSimple == InitSimple /\ [][NextSimple]_vars


(***************************************************************************)
(* The array grammar of the specification, used to state the claims:       *)
(*   array    := [dims] '{' elements? '}'                                  *)
(*   dims     := ('[' int ':' int ']')+ '='                                *)
(*   elements := element (delim element)*                                  *)
(*   element  := array | quoted-string | bare-string                       *)
(* with blanks allowed between the tokens.  A leaf is the record of its    *)
(* trimmed source text (raw), its unescaped text (txt) and its quoting.    *)
(***************************************************************************)
RefBad == [ok |-> FALSE, next |-> 0]

RECURSIVE RefSkip(_, _)
RefSkip(str, i) == IF i <= Len(str) /\ str[i] = " " THEN RefSkip(str, i + 1) ELSE i

RECURSIVE RefQuoted(_, _, _)
RefQuoted(str, i, txt) ==
    IF i > Len(str) THEN RefBad
    ELSE IF str[i] = "\""
    THEN [ok |-> TRUE, next |-> i + 1,
          val |-> [quoted |-> TRUE, raw |-> <<>>, txt |-> txt]]
    ELSE IF str[i] = "\\"
    THEN IF i + 1 > Len(str) THEN RefBad
         ELSE RefQuoted(str, i + 2, Append(txt, str[i + 1]))
    ELSE RefQuoted(str, i + 1, Append(txt, str[i]))

\* pend is the number of blanks read since the last byte that counts.
RECURSIVE RefBare(_, _, _, _, _, _)
RefBare(str, i, stops, raw, txt, pend) ==
    IF i > Len(str) \/ str[i] \in stops
    THEN IF raw = <<>> THEN RefBad
         ELSE [ok |-> TRUE, next |-> i,
               val |-> [quoted |-> FALSE, raw |-> raw, txt |-> txt]]
    ELSE IF str[i] = " " THEN RefBare(str, i + 1, stops, raw, txt, pend + 1)
    ELSE IF str[i] = "\\"
    THEN IF i + 1 > Len(str) THEN RefBad
         ELSE RefBare(str, i + 2, stops,
                      raw \o Repeat(" ", pend) \o <<"\\", str[i + 1]>>,
                      txt \o Repeat(" ", pend) \o <<str[i + 1]>>, 0)
    ELSE RefBare(str, i + 1, stops, raw \o Repeat(" ", pend) \o <<str[i]>>,
                 txt \o Repeat(" ", pend) \o <<str[i]>>, 0)

RECURSIVE RefArray(_, _, _)
RECURSIVE RefElements(_, _, _, _)
RefElements(str, i, delim, items) ==
    LET e == IF i > Len(str) THEN RefBad
             ELSE IF str[i] = "{" THEN RefArray(str, i, delim)
             ELSE IF str[i] = "\"" THEN RefQuoted(str, i + 1, <<>>)
             ELSE RefBare(str, i, {"\"", "{", "}", delim}, <<>>, <<>>, 0)
        j == RefSkip(str, e.next)
    IN  IF ~e.ok \/ j > Len(str) THEN RefBad
        ELSE IF str[j] = delim
        THEN RefElements(str, RefSkip(str, j + 1), delim, Append(items, e.val))
        ELSE IF str[j] = "}"
        THEN [ok |-> TRUE, next |-> j + 1, val |-> PyList(Append(items, e.val))]
        ELSE RefBad
RefArray(str, i, delim) ==
    LET j == RefSkip(str, i + 1)
    IN  IF j <= Len(str) /\ str[j] = "}"
        THEN [ok |-> TRUE, next |-> j + 1, val |-> PyList(<<>>)]
        ELSE RefElements(str, j, delim, <<>>)

RECURSIVE RefDigits(_, _)
RefDigits(str, i) == IF i <= Len(str) /\ IsDigit(str[i]) THEN RefDigits(str, i + 1) ELSE i

\* int := an optional sign and digits; the position after it, or 0.
RefInt(str, i) ==
    LET j == IF i <= Len(str) /\ str[i] \in {"+", "-"} THEN i + 1 ELSE i
    IN  IF RefDigits(str, j) > j THEN RefDigits(str, j) ELSE 0

\* dims from position i on: the number of ranges and the position after
\* '='.  Blanks inside the dimensions are accepted only when loose.
RECURSIVE RefDims(_, _, _, _)
RefDims(str, i, n, loose) ==
    LET sk(k) == IF loose THEN RefSkip(str, k) ELSE k
        a == RefInt(str, sk(i + 1))
        b == RefInt(str, sk(sk(a) + 1))
        c == sk(b)
        d == sk(c + 1)
    IN  IF i > Len(str) \/ str[i] # "[" THEN RefBad
        ELSE IF a = 0 \/ sk(a) > Len(str) \/ str[sk(a)] # ":" THEN RefBad
        ELSE IF b = 0 \/ c > Len(str) \/ str[c] # "]" THEN RefBad
        ELSE IF d <= Len(str) /\ str[d] = "="
        THEN [ok |-> TRUE, next |-> RefSkip(str, d + 1), n |-> n + 1]
        ELSE RefDims(str, d, n + 1, loose)

IsLeaf(v) == "quoted" \in DOMAIN v

\* The nesting depth that the first elements of the lists announce.
RECURSIVE RefDepth(_)
RefDepth(v) ==
    IF v.list # <<>> /\ ~IsLeaf(v.list[1]) THEN 1 + RefDepth(v.list[1]) ELSE 1

\* Every leaf of the list v of level k sits at level d, no list below it.
RECURSIVE RefUniform(_, _, _)
RefUniform(v, k, d) ==
    \A i \in 1..Len(v.list) :
        IF IsLeaf(v.list[i]) THEN k = d
        ELSE k < d /\ RefUniform(v.list[i], k + 1, d)

\* The parse of a whole literal by the grammar.
RefLiteral(str, delim, loose) ==
    LET i == RefSkip(str, 1)
        dims == IF i <= Len(str) /\ str[i] = "[" THEN RefDims(str, i, 0, loose)
                ELSE [ok |-> TRUE, next |-> i, n |-> 0]
        a == IF dims.ok /\ dims.next <= Len(str) /\ str[dims.next] = "{"
             THEN RefArray(str, dims.next, delim) ELSE RefBad
    IN  IF a.ok /\ RefSkip(str, a.next) > Len(str)
           /\ RefUniform(a.val, 1, RefDepth(a.val))
           /\ dims.n \in {0, RefDepth(a.val)}
        THEN [ok |-> TRUE, val |-> a.val, depth |-> RefDepth(a.val), dims |-> dims.n]
        ELSE [ok |-> FALSE, val |-> PyList(<<>>), depth |-> 0, dims |-> 0]

RefIsNull(leaf) ==
    /\ ~leaf.quoted
    /\ Len(leaf.raw) = 4
    /\ [i \in 1..4 |-> Lower(leaf.raw[i])] = <<"n", "u", "l", "l">>

\* A leaf cast with the base type of a tag.
RefCastLeaf(leaf, type) ==
    IF RefIsNull(leaf) THEN Ok(PyNone)
    ELSE IF type % PYGRES_ARRAY = PYGRES_INT THEN PyLong_FromString(leaf.txt)
    ELSE Ok(PyText(leaf.txt))

RECURSIVE RefCastable(_, _)
RefCastable(v, type) ==
    IF IsLeaf(v) THEN RefCastLeaf(v, type).ok
    ELSE \A i \in 1..Len(v.list) : RefCastable(v.list[i], type)

RECURSIVE RefValue(_, _)
RefValue(v, type) ==
    IF IsLeaf(v) THEN RefCastLeaf(v, type).obj
    ELSE PyList([i \in 1..Len(v.list) |-> RefValue(v.list[i], type)])

ArrayDone == arr.pc = "done"
ArrayResult == Deref(arr.heap, PyRef(arr.result))
ArrayDelim == IF arr.call.delim = NUL THEN "," ELSE arr.call.delim
ArrayRef == RefLiteral(arr.str, ArrayDelim, FALSE)
ArrayRefLoose == RefLiteral(arr.str, ArrayDelim, TRUE)

(***************************************************************************)
(* C1: a well-formed array literal (one of the grammar, with every         *)
(* element at the depth of the leading braces and at most MAX_ARRAY_DEPTH  *)
(* levels) that is cast with a type tag gives the list whose nesting is    *)
(* the nesting of the braces and whose leaves are the elements from left   *)
(* to right, each cast with the base type of the tag.                      *)
(***************************************************************************)
C1_ArrayMirrorsLiteral ==
    (/\ ArrayDone
     /\ arr.call.type # 0
     /\ ArrayRef.ok
     /\ ArrayRef.depth <= MAX_ARRAY_DEPTH
     /\ RefCastable(ArrayRef.val, arr.call.type))
    => (arr.ret = "list" /\ ArrayResult = RefValue(ArrayRef.val, arr.call.type))

\* {1,NULL,3} with Int has given [1, None, 3].
C1_Witness ==
    /\ ArrayDone
    /\ arr.call.type = PYGRES_INT + PYGRES_ARRAY
    /\ arr.str = <<"{", "1", ",", "N", "U", "L", "L", ",", "3", "}">>
    /\ arr.ret = "list"
    /\ ArrayResult = PyList(<<PyInt(1), PyNone, PyInt(3)>>)

(***************************************************************************)
(* C2: cast_array returns a list only for input of the array grammar, and  *)
(* every input that is not of the grammar fails with ValueError.           *)
(***************************************************************************)
C2_OnlyGrammarAccepted ==
    ArrayDone =>
        /\ arr.ret = "list" => ArrayRefLoose.ok
        /\ (~ArrayRefLoose.ok /\ arr.call.delim \notin {"{", "}", "\\"})
              => (arr.ret = "NULL" /\ arr.exc = "ValueError")

\* {1,} is returned as [1].
C2_TrailingDelimiterAccepted ==
    /\ ArrayDone
    /\ arr.str = <<"{", "1", ",", "}">>
    /\ arr.ret = "list"

(***************************************************************************)
(* C3: when cast_array, cast_record or cast_hstore returns an error, every  *)
(* list, dictionary, key and value created during the call has been        *)
(* released: no list is live and the function owns no reference.           *)
(***************************************************************************)
C3_ErrorReleasesAll ==
    /\ (arr.pc = "done" /\ arr.ret = "NULL") => Live(arr.heap) = {}
    /\ (rec.pc = "done" /\ rec.ret = "NULL") => Live(rec.heap) = {}
    /\ (hs.pc = "done" /\ hs.ret = "NULL") => hs.refs = {}

\* The same for cast_hstore alone: a=>"b leaves the key behind.
C3_HstoreErrorReleasesAll ==
    (hs.pc = "done" /\ hs.ret = "NULL") => hs.refs = {}

(***************************************************************************)
(* C4: a literal with 17 or more leading braces fails with ValueError      *)
(* before an element is cast and before a list is created or pushed; with  *)
(* 1 to 16 leading braces the depth is accepted, and the well-formed       *)
(* literal of that depth is returned as a list.                            *)
(***************************************************************************)
\* The number of left braces among the leading blanks and braces of str
\* from position i on.
RECURSIVE LeadingBraces(_, _)
LeadingBraces(str, i) ==
    IF i <= Len(str) /\ str[i] \in {"{", " "}
    THEN (IF str[i] = "{" THEN 1 ELSE 0) + LeadingBraces(str, i + 1)
    ELSE 0

C4_DepthLimit ==
    ArrayDone =>
        LET d == LeadingBraces(arr.str, 1)
        IN  /\ d > MAX_ARRAY_DEPTH =>
                 /\ arr.ret = "NULL" /\ arr.exc = "ValueError"
                 /\ arr.ncast = 0 /\ arr.calls = <<>>
                 /\ arr.heap = <<>> /\ arr.stack = <<>>
            /\ (d \in 1..MAX_ARRAY_DEPTH /\ arr.call.delim \notin {"{", "}", "\\"}) =>
                 /\ arr.err # "Array is too deeply nested"
                 /\ (arr.str = Repeat("{", d) \o <<"1">> \o Repeat("}", d)
                       => arr.ret = "list")

\* The literal of 17 levels has been rejected, the one of 16 is a list.
C4_Witness ==
    /\ ArrayDone
    /\ LeadingBraces(arr.str, 1) = MAX_ARRAY_DEPTH + 1
    /\ arr.str = Repeat("{", 17) \o <<"1">> \o Repeat("}", 17)
    /\ arr.err = "Array is too deeply nested"

(***************************************************************************)
(* C5: in the list returned for a literal of the grammar, an element is    *)
(* None exactly when it is unquoted and, trimmed, the word NULL in any     *)
(* letter case; a quoted "NULL" and any other content is a value.          *)
(***************************************************************************)
RECURSIVE Leaves(_)
RECURSIVE LeavesOf(_, _)
Leaves(v) == IF "list" \in DOMAIN v THEN LeavesOf(v.list, 1) ELSE <<v>>
LeavesOf(q, i) == IF i > Len(q) THEN <<>> ELSE Leaves(q[i]) \o LeavesOf(q, i + 1)

C5_NullIsCaseInsensitive ==
    (ArrayDone /\ arr.ret = "list" /\ ArrayRefLoose.ok) =>
        LET got == Leaves(ArrayResult)
            src == Leaves(ArrayRefLoose.val)
        IN  /\ Len(got) = Len(src)
            /\ \A i \in 1..Len(src) : (got[i] = PyNone) <=> RefIsNull(src[i])

\* {nUlL} has given [None] and {"NULL"} a text.
C5_Witness ==
    /\ ArrayDone
    /\ arr.str = <<"{", "n", "U", "l", "L", "}">>
    /\ arr.ret = "list"
    /\ ArrayResult = PyList(<<PyNone>>)

(***************************************************************************)
(* C6: with '{', '}' or backslash as the delimiter the call fails with     *)
(* ValueError before a byte of the input is read and before a list is      *)
(* created; when no delimiter is given, the elements are delimited by a    *)
(* comma.                                                                  *)
(***************************************************************************)
C6_DelimiterValidated ==
    /\ (ArrayDone /\ arr.call.delim \in {"{", "}", "\\"}) =>
          /\ arr.ret = "NULL" /\ arr.exc = "ValueError"
          /\ arr.hi = 0 /\ arr.s = 1 /\ arr.heap = <<>>
          /\ arr.ncast = 0 /\ arr.calls = <<>>
    /\ (arr.pc \notin {"idle", "args"} /\ arr.call.delim = NUL) => arr.delim = ","

C6_Witness ==
    /\ ArrayDone
    /\ arr.call.delim = "}"
    /\ arr.str = <<"{", "1", "}">>
    /\ arr.err = "Invalid array delimiter"

(***************************************************************************)
(* C7: behind k well-formed dimension ranges and '=', a body with k        *)
(* leading braces gives what the body alone gives, whatever the bounds;    *)
(* a body with another number of leading braces, or a prefix that is not   *)
(* of the grammar, fails with ValueError.                                  *)
(***************************************************************************)
ArrayOutcome(p) ==
    <<p.ret, p.exc, p.err,
      IF p.ret = "list" THEN Deref(p.heap, PyRef(p.result)) ELSE PyNone>>

\* The call of cast_array on the body that starts at position i of the
\* string, before the same memory.
BodyCall(i) ==
    [ArrayCall(SubSeq(arr.str, i, Len(arr.str)), arr.encoding, arr.call.type,
               arr.call.cast, arr.call.delim) EXCEPT !.tail = arr.tail]

RECURSIVE RefField(_, _, _, _, _, _)
RefField(str, i, delim, inq, seen, txt) ==
    IF i > Len(str) THEN RefBad
    ELSE IF inq
    THEN IF str[i] = "\""
         THEN IF i + 1 <= Len(str) /\ str[i + 1] = "\""
              THEN RefField(str, i + 2, delim, TRUE, TRUE, Append(txt, "\""))
              ELSE RefField(str, i + 1, delim, FALSE, TRUE, txt)
         ELSE IF str[i] = "\\"
         THEN IF i + 1 > Len(str) THEN RefBad
              ELSE RefField(str, i + 2, delim, TRUE, TRUE, Append(txt, str[i + 1]))
         ELSE RefField(str, i + 1, delim, TRUE, TRUE, Append(txt, str[i]))
    ELSE IF str[i] \in {delim, ")"}
    THEN [ok |-> TRUE, val |-> [text |-> txt, null |-> ~seen], next |-> i]
    ELSE IF str[i] = "\""
    THEN RefField(str, i + 1, delim, TRUE, TRUE, txt)
    ELSE IF str[i] = "\\"
    THEN IF i + 1 > Len(str) THEN RefBad
         ELSE RefField(str, i + 2, delim, FALSE, TRUE, Append(txt, str[i + 1]))
    ELSE RefField(str, i + 1, delim, FALSE, TRUE, Append(txt, str[i]))

RECURSIVE RefFields(_, _, _, _)
RefFields(str, i, delim, fields) ==
    LET f == RefField(str, i, delim, FALSE, FALSE, <<>>)
    IN  IF ~f.ok THEN RefBad
        ELSE IF str[f.next] = delim
        THEN RefFields(str, f.next + 1, delim, Append(fields, f.val))
        ELSE [ok |-> TRUE, val |-> Append(fields, f.val), next |-> f.next + 1]

RefRecord(str, delim) ==
    LET i == RefSkip(str, 1)
        fs == RefFields(str, i + 1, delim, <<>>)
    IN  IF i > Len(str) \/ str[i] # "(" THEN RefBad
        ELSE IF ~fs.ok \/ RefSkip(str, fs.next) <= Len(str) THEN RefBad
        ELSE fs

RecordDone == rec.pc = "done"
RecordDelim == IF rec.call.delim = NUL THEN "," ELSE rec.call.delim
RecordRef == RefRecord(rec.str, RecordDelim)

\* The callable of field k (from 1), or None.
RecordCastOf(k) ==
    IF rec.call.len # 0
    THEN (IF k <= rec.call.len THEN rec.call.cast.tuple[k] ELSE PyNone)
    ELSE IF rec.call.cast = NoObject THEN PyNone ELSE rec.call.cast

\* What field k of the literal is to be: None, its text, or what the
\* callable makes of its text.
RecordExpected(field, k) ==
    LET txt == IF rec.encoding = pg_encoding_ascii THEN PyBytes(field.text)
               ELSE PyText(field.text)
    IN  IF field.null THEN Ok(PyNone)
        ELSE IF RecordCastOf(k) = PyNone THEN Ok(txt)
        ELSE PyObject_Call(RecordCastOf(k).callable, txt)

(***************************************************************************)
(* C8: for a literal of the record grammar whose fields can all be cast,   *)
(* cast_record returns a tuple with one entry per field, in order: None    *)
(* for an empty unquoted field, also the last one, and the cast text for   *)
(* every other field, the quoted empty one, the quoted one holding the     *)
(* delimiter and the unquoted word NULL included.                          *)
(***************************************************************************)
C8_RecordOneEntryPerField ==
    (/\ RecordDone /\ rec.call.delim \notin {"(", ")", "\\"} /\ RecordRef.ok
     /\ rec.call.len \in {0, Len(RecordRef.val)}
     /\ \A k \in 1..Len(RecordRef.val) : RecordExpected(RecordRef.val[k], k).ok)
    => /\ rec.ret = "tuple"
       /\ rec.value = [k \in 1..Len(RecordRef.val) |->
                          RecordExpected(RecordRef.val[k], k).obj]

\* (1,",""\)",) cast with (int, None, None) has given (1, ',")', None).
C8_Witness ==
    /\ RecordDone
    /\ rec.str = <<"(", "1", ",", "\"", ",", "\"", "\"", "\\", ")", "\"", ",", ")">>
    /\ rec.call.cast = PyTuple(<<PyCallable("int"), PyNone, PyNone>>)
    /\ rec.ret = "tuple"
    /\ rec.value = <<PyInt(1), PyText(<<",", "\"", ")">>), PyNone>>

(***************************************************************************)
(* C9: with an expected length n, cast_record returns a tuple only for a   *)
(* literal of n fields; with more fields, the first n of which can be      *)
(* cast, it fails with 'Too many columns', with fewer fields, all of which *)
(* can be cast, with 'Too few columns'; and no callable at an index of n   *)
(* or above is read, whatever the input.                                   *)
(***************************************************************************)
C9_ExpectedLength ==
    (RecordDone /\ rec.call.len # 0) =>
        LET n == rec.call.len
            fs == RecordRef.val
        IN  /\ \A k \in rec.reads : k < n
            /\ (RecordRef.ok /\ rec.ret = "tuple") => Len(fs) = n
            /\ (/\ RecordRef.ok /\ Len(fs) > n
                /\ \A k \in 1..n : RecordExpected(fs[k], k).ok)
               => (rec.ret = "NULL" /\ rec.exc = "ValueError"
                   /\ rec.err = "Too many columns")
            /\ (/\ RecordRef.ok /\ Len(fs) < n
                /\ \A k \in 1..Len(fs) : RecordExpected(fs[k], k).ok)
               => (rec.ret = "NULL" /\ rec.exc = "ValueError"
                   /\ rec.err = "Too few columns")

\* (1,1,1) with two callables has failed after both were read.
C9_Witness ==
    /\ RecordDone
    /\ rec.str = <<"(", "1", ",", "1", ",", "1", ")">>
    /\ rec.call.len = 2
    /\ rec.err = "Too many columns"
    /\ rec.reads = {0, 1}

(***************************************************************************)
(* The hstore grammar of the specification, used to state the claims:      *)
(*   hstore := empty | pair (',' pair)*                                    *)
(*   pair   := token '=>' token                                            *)
(*   token  := '"' ('\' byte | byte)* '"' | ('\' byte | byte)+             *)
(* with blanks around the tokens.                                          *)
(***************************************************************************)
\* The token from position i on: its text, its bytes as written, whether
\* it is quoted, and the position after it.
RECURSIVE RefToken(_, _, _, _, _, _)
RefToken(str, i, stops, quoted, raw, txt) ==
    IF i > Len(str)
    THEN (IF quoted \/ raw = <<>> THEN RefBad
          ELSE [ok |-> TRUE, val |-> [text |-> txt, raw |-> raw, quoted |-> FALSE],
                next |-> i])
    ELSE IF quoted /\ str[i] = "\""
    THEN [ok |-> TRUE, val |-> [text |-> txt, raw |-> raw, quoted |-> TRUE],
          next |-> i + 1]
    ELSE IF ~quoted /\ str[i] \in stops
    THEN (IF raw = <<>> THEN RefBad
          ELSE [ok |-> TRUE, val |-> [text |-> txt, raw |-> raw, quoted |-> FALSE],
                next |-> i])
    ELSE IF str[i] = "\\"
    THEN IF i + 1 > Len(str) THEN RefBad
         ELSE RefToken(str, i + 2, stops, quoted,
                       raw \o <<str[i], str[i + 1]>>, Append(txt, str[i + 1]))
    ELSE RefToken(str, i + 1, stops, quoted, Append(raw, str[i]), Append(txt, str[i]))

RefTokenAt(str, i, stops) ==
    IF i <= Len(str) /\ str[i] = "\""
    THEN RefToken(str, i + 1, {}, TRUE, <<>>, <<>>)
    ELSE RefToken(str, i, stops, FALSE, <<>>, <<>>)

RECURSIVE RefPairs(_, _, _)
RefPairs(str, i, pairs) ==
    LET k == RefTokenAt(str, RefSkip(str, i), {"=", " "})
        a == RefSkip(str, k.next)
        v == RefTokenAt(str, RefSkip(str, a + 2), {",", " "})
        c == RefSkip(str, v.next)
        all == Append(pairs, [key |-> k.val, val |-> v.val])
    IN  IF ~k.ok THEN RefBad
        ELSE IF a + 1 > Len(str) \/ str[a] # "=" \/ str[a + 1] # ">" THEN RefBad
        ELSE IF ~v.ok THEN RefBad
        ELSE IF c > Len(str) THEN [ok |-> TRUE, val |-> all, next |-> c]
        ELSE IF str[c] # "," \/ RefSkip(str, c + 1) > Len(str) THEN RefBad
        ELSE RefPairs(str, c + 1, all)

RefHstore(str) ==
    IF RefSkip(str, 1) > Len(str) THEN [ok |-> TRUE, val |-> <<>>, next |-> Len(str) + 1]
    ELSE RefPairs(str, 1, <<>>)

HstoreDone == hs.pc = "done"
HstoreRef == RefHstore(hs.str)

\* The text of a key or value object.
PyStr(x) == IF "text" \in DOMAIN x THEN x.text ELSE x.bytes

\* The value the dictionary holds for the key of pair k of the literal.
HstoreValueOf(k) ==
    LET key == HstoreRef.val[k].key.text
        i == CHOOSE i \in 1..Len(hs.result) : PyStr(hs.result[i][1]) = key
    IN  hs.result[i][2]

\* The pairs whose key no later pair sets again.
HstoreLastPairs ==
    { k \in 1..Len(HstoreRef.val) :
        \A j \in (k + 1)..Len(HstoreRef.val) :
            HstoreRef.val[j].key.text # HstoreRef.val[k].key.text }

IsUpperNull(tok) == ~tok.quoted /\ tok.raw = <<"N", "U", "L", "L">>

IsAnyCaseNull(tok) ==
    /\ ~tok.quoted
    /\ Len(tok.raw) = 4
    /\ [i \in 1..4 |-> Lower(tok.raw[i])] = <<"n", "u", "l", "l">>

(***************************************************************************)
(* C10 as the specification has it: in the dictionary returned for a       *)
(* literal of the hstore grammar, a value is None exactly when it is the   *)
(* unquoted token NULL in upper case; null, Null and "NULL" are text.      *)
(***************************************************************************)
C10_HstoreNullUpperCaseOnly ==
    (HstoreDone /\ hs.ret = "dict" /\ HstoreRef.ok) =>
        \A k \in HstoreLastPairs :
            (HstoreValueOf(k) = PyNone) <=> IsUpperNull(HstoreRef.val[k].val)

(***************************************************************************)
(* C10 as the code has it: in the dictionary returned for a literal of     *)
(* the hstore grammar, a value is None exactly when it is the unquoted     *)
(* token NULL in any letter case; a quoted "NULL" and every other value    *)
(* is text.                                                                *)
(***************************************************************************)
C10_HstoreNullAnyCase ==
    (HstoreDone /\ hs.ret = "dict" /\ HstoreRef.ok) =>
        \A k \in HstoreLastPairs :
            /\ (HstoreValueOf(k) = PyNone) <=> IsAnyCaseNull(HstoreRef.val[k].val)
            /\ ~IsAnyCaseNull(HstoreRef.val[k].val) =>
                  PyStr(HstoreValueOf(k)) = HstoreRef.val[k].val.text

\* a=>nuLL has given {a: None}.
C10_Witness ==
    /\ HstoreDone
    /\ hs.str = <<"a", "=", ">", "n", "u", "L", "L">>
    /\ hs.ret = "dict"
    /\ hs.result = << <<PyText(<<"a">>), PyNone>> >>

(***************************************************************************)
(* C11: every key of the dictionary returned by cast_hstore is a text      *)
(* string and never None, also for the unquoted key NULL, and every value  *)
(* is a text string or None; "a"=>"1", "b"=>NULL gives {a: 1, b: None}.    *)
(***************************************************************************)
C11_HstoreKeysAndValuesAreText ==
    (HstoreDone /\ hs.ret = "dict") =>
        /\ \A i \in 1..Len(hs.result) :
              /\ DOMAIN hs.result[i][1] = {"text"}
              /\ \/ DOMAIN hs.result[i][2] = {"text"}
                 \/ hs.result[i][2] = PyNone
        /\ hs.str = HsPairs[2] \o <<",", " ">> \o HsPairs[9] =>
              hs.result = << <<PyText(<<"a">>), PyText(<<"1">>)>>,
                             <<PyText(<<"b">>), PyNone>> >>

(***************************************************************************)
(* The reason for which a string is no literal of the hstore grammar:      *)
(* "arrow" when a key is not followed by =>, "quote" when a quoted key or  *)
(* value is not closed, "comma" when nothing follows the comma after a     *)
(* pair, "other" for the rest and "none" for a literal.                    *)
(***************************************************************************)
RECURSIVE RefHstoreWhy(_, _)
RefHstoreWhy(str, i) ==
    LET ks == RefSkip(str, i)
        k == RefTokenAt(str, ks, {"=", " "})
        a == RefSkip(str, k.next)
        vs == RefSkip(str, a + 2)
        v == RefTokenAt(str, vs, {",", " "})
        c == RefSkip(str, v.next)
    IN  IF ks > Len(str) THEN "none"
        ELSE IF ~k.ok THEN (IF str[ks] = "\"" THEN "quote" ELSE "other")
        ELSE IF a + 1 > Len(str) \/ str[a] # "=" \/ str[a + 1] # ">" THEN "arrow"
        ELSE IF ~v.ok
        THEN (IF vs <= Len(str) /\ str[vs] = "\"" THEN "quote" ELSE "other")
        ELSE IF c > Len(str) THEN "none"
        ELSE IF str[c] # "," THEN "other"
        ELSE IF RefSkip(str, c + 1) > Len(str) THEN "comma"
        ELSE RefHstoreWhy(str, c + 1)

(***************************************************************************)
(* C12: cast_hstore fails with ValueError and returns no dictionary for    *)
(* every input in which a key is not followed by =>, a quote of a key or   *)
(* value is not closed, or a comma follows the last pair.                  *)
(***************************************************************************)
C12_HstoreMalformedFails ==
    (HstoreDone /\ RefHstoreWhy(hs.str, 1) \in {"arrow", "quote", "comma"}) =>
        /\ hs.ret = "NULL"
        /\ hs.exc = "ValueError"
        /\ hs.err # ""

\* a=>1, has failed with Missing entry after the pair was parsed.
C12_Witness ==
    /\ HstoreDone
    /\ hs.str = <<"a", "=", ">", "1", ",">>
    /\ hs.ret = "NULL"
    /\ hs.exc = "ValueError"
    /\ hs.err = "Missing entry"

(***************************************************************************)
(* The oids and the tags of the specification, used to state the claims    *)
(* on the type of a column.  ElementOid gives the oid of the elements of   *)
(* an array type.                                                          *)
(***************************************************************************)
SimpleOids ==
    {"INT2OID", "INT4OID", "CIDOID", "OIDOID", "XIDOID", "INT8OID", "FLOAT4OID",
     "FLOAT8OID", "NUMERICOID", "CASHOID", "BOOLOID", "BYTEAOID", "JSONOID",
     "JSONBOID", "BPCHAROID", "CHAROID", "TEXTOID", "VARCHAROID", "NAMEOID",
     "REGTYPEOID"}

ArrayOidPairs ==
    <<<<"INT2ARRAYOID", "INT2OID">>, <<"INT4ARRAYOID", "INT4OID">>,
       <<"CIDARRAYOID", "CIDOID">>, <<"OIDARRAYOID", "OIDOID">>,
       <<"XIDARRAYOID", "XIDOID">>, <<"INT8ARRAYOID", "INT8OID">>,
       <<"FLOAT4ARRAYOID", "FLOAT4OID">>, <<"FLOAT8ARRAYOID", "FLOAT8OID">>,
       <<"NUMERICARRAYOID", "NUMERICOID">>, <<"MONEYARRAYOID", "CASHOID">>,
       <<"BOOLARRAYOID", "BOOLOID">>, <<"BYTEAARRAYOID", "BYTEAOID">>,
       <<"JSONARRAYOID", "JSONOID">>, <<"JSONBARRAYOID", "JSONBOID">>,
       <<"BPCHARARRAYOID", "BPCHAROID">>, <<"CHARARRAYOID", "CHAROID">>,
       <<"TEXTARRAYOID", "TEXTOID">>, <<"VARCHARARRAYOID", "VARCHAROID">>,
       <<"NAMEARRAYOID", "NAMEOID">>, <<"REGTYPEARRAYOID", "REGTYPEOID">>>>

ArrayOids == {ArrayOidPairs[i][1] : i \in 1..Len(ArrayOidPairs)}

ElementOid(a) ==
    ArrayOidPairs[CHOOSE i \in 1..Len(ArrayOidPairs) : ArrayOidPairs[i][1] = a][2]

UnknownOids == {"POINTOID", "UUIDOID", "HSTOREOID", "RECORDOID", "POINTARRAYOID"}

SimpleTags ==
    {PYGRES_INT, PYGRES_LONG, PYGRES_FLOAT, PYGRES_DECIMAL, PYGRES_MONEY,
     PYGRES_BOOL, PYGRES_TEXT, PYGRES_BYTEA, PYGRES_JSON, PYGRES_OTHER}

ArrayTags == {t + PYGRES_ARRAY : t \in SimpleTags \ {PYGRES_OTHER}}

(***************************************************************************)
(* C13: get_type is total.  Under every setting of the global variables    *)
(* it gives a tag for every oid, an oid that it does not know gets the     *)
(* tag Other without the array flag, also as the type of a column of a     *)
(* query object, and the step in which a query object gets the types of    *)
(* its columns leaves the global variables as they were.                   *)
(***************************************************************************)
C13_TagOfEveryOid ==
    /\ \A oid \in SimpleOids \cup ArrayOids \cup UnknownOids :
          get_type(oid) \in SimpleTags \cup ArrayTags
    /\ \A oid \in UnknownOids : get_type(oid) = PYGRES_OTHER
    /\ \A j \in 1..Len(qry.col_types) :
          PQftype(qry.result, j - 1) \in UnknownOids =>
              qry.col_types[j] = PYGRES_OTHER

C13_GetTypeIsTotal ==
    /\ []C13_TagOfEveryOid
    /\ [][qry'.fetched # qry.fetched => mod' = mod]_vars

\* A query object with a column of type point, made after the global
\* variables were changed.
C13_Witness ==
    /\ qry.pc = "alive"
    /\ mod.array_as_text # 0
    /\ mod.jsondecode # NULLPTR
    /\ qry.num_fields = 2
    /\ PQftype(qry.result, 0) = "POINTOID"
    /\ qry.col_types = <<PYGRES_OTHER, PYGRES_LONG>>

(***************************************************************************)
(* C14: an array oid gets the tag Text, without the array flag, when the   *)
(* arrays are returned as text, and else the array flag together with the  *)
(* tag that the oid of its elements gets under the same setting.           *)
(***************************************************************************)
C14_ArrayOidTag ==
    \A a \in ArrayOids :
        get_type(a) = IF mod.array_as_text # 0 THEN PYGRES_TEXT
                      ELSE PYGRES_ARRAY + get_type(ElementOid(a))

\* Both cases in columns of query objects: an int4[] and a jsonb[] column
\* typed as text, and typed as arrays of Int and of Json.
C14_ArraysAsText ==
    /\ mod.array_as_text # 0
    /\ qry.pc = "alive"
    /\ qry.num_fields = 2
    /\ PQftype(qry.result, 1) = "JSONBARRAYOID"
    /\ qry.col_types = <<PYGRES_TEXT, PYGRES_TEXT>>

C14_Witness ==
    /\ mod.array_as_text = 0
    /\ mod.jsondecode # NULLPTR
    /\ qry.pc = "alive"
    /\ qry.num_fields = 2
    /\ PQftype(qry.result, 1) = "JSONBARRAYOID"
    /\ qry.col_types = <<PYGRES_INT + PYGRES_ARRAY, PYGRES_JSON + PYGRES_ARRAY>>

(***************************************************************************)
(* C15: bytea gets the tag Text when bytea is returned escaped and Bytea   *)
(* otherwise; json and jsonb get Text without a JSON decoder and Json      *)
(* with one; money gets Text without a decimal point and Money with one.   *)
(***************************************************************************)
C15_ConfiguredTags ==
    /\ get_type("BYTEAOID") =
          IF mod.bytea_escaped # 0 THEN PYGRES_TEXT ELSE PYGRES_BYTEA
    /\ \A oid \in {"JSONOID", "JSONBOID"} :
          get_type(oid) =
              IF mod.jsondecode = NULLPTR THEN PYGRES_TEXT ELSE PYGRES_JSON
    /\ get_type("CASHOID") =
          IF mod.decimal_point = NUL THEN PYGRES_TEXT ELSE PYGRES_MONEY

\* A query object made with bytea escaped and a JSON decoder set, and the
\* decimal point cleared.
C15_Witness ==
    /\ mod.bytea_escaped # 0
    /\ mod.jsondecode # NULLPTR
    /\ mod.decimal_point = NUL
    /\ qry.pc = "alive"
    /\ qry.num_fields = 2
    /\ PQftype(qry.result, 0) = "BYTEAOID"
    /\ qry.col_types = <<PYGRES_TEXT, PYGRES_JSON>>
    /\ get_type("CASHOID") = PYGRES_TEXT

(***************************************************************************)
(* The objects that a cell can give under a tag: None for a NULL cell, a   *)
(* list for an array, and for the simple tags the objects of their         *)
(* casters.                                                                *)
(***************************************************************************)
IsDecimalOrFloat(x) ==
    \/ DOMAIN x = {"float"}
    \/ DOMAIN x = {"cast", "arg"} /\ x.cast = "Decimal"

IsTextOrBytes(x) == DOMAIN x = {"text"} \/ DOMAIN x = {"bytes"}

CastUnder(tag, x) ==
    CASE x = PyNone -> TRUE
      [] tag >= PYGRES_ARRAY -> DOMAIN x = {"list"}
      [] tag \in {PYGRES_INT, PYGRES_LONG} -> DOMAIN x = {"int"}
      [] tag = PYGRES_FLOAT -> DOMAIN x = {"float"}
      [] tag \in {PYGRES_DECIMAL, PYGRES_MONEY} -> IsDecimalOrFloat(x)
      [] tag = PYGRES_BOOL -> DOMAIN x = {"bool"} \/ DOMAIN x = {"text"}
      [] tag = PYGRES_TEXT -> IsTextOrBytes(x)
      [] tag = PYGRES_BYTEA -> DOMAIN x = {"bytes"} \/ DOMAIN x = {"unhex"}
      [] tag = PYGRES_JSON ->
            DOMAIN x = {"text"} \/ (DOMAIN x = {"cast", "arg"} /\ x.cast = "json")
      [] tag = PYGRES_OTHER ->
            IsTextOrBytes(x) \/ DOMAIN x = {"cast", "arg", "oid"}
      [] OTHER -> FALSE

\* The rows that the last method call has returned.
ReturnedRows ==
    CASE qry.ret = "tuple" -> <<qry.value>>
      [] qry.ret = "list" -> qry.value.list
      [] OTHER -> <<>>

\* Every returned cell is an object of the tag recorded for its column,
\* and in the list of all rows a cell is None exactly when it is NULL.
CellsCastUnderTags ==
    /\ \A r \in 1..Len(ReturnedRows) :
          /\ Len(ReturnedRows[r].tuple) = Len(qry.col_types)
          /\ \A j \in 1..Len(qry.col_types) :
                CastUnder(qry.col_types[j], ReturnedRows[r].tuple[j])
    /\ qry.ret = "list" =>
          \A r \in 1..Len(ReturnedRows) : \A j \in 1..Len(qry.col_types) :
              ReturnedRows[r].tuple[j] = PyNone
                  <=> PQgetisnull(qry.result, r - 1, j - 1)

(***************************************************************************)
(* C16: the tag of a column is assigned when the query object obtains the  *)
(* result and stays as it is while the object holds that result, whatever  *)
(* is set in the module and whichever rows are read, and every cell that   *)
(* is returned was cast under that tag.                                    *)
(***************************************************************************)
C16_TagsKeptForTheResult ==
    /\ []CellsCastUnderTags
    /\ [][(qry.pc = "alive" /\ qry'.pc = "alive" /\ qry.fetched > 0
           /\ qry'.fetched = qry.fetched /\ ~qry'.result.null)
             => qry'.col_types = qry.col_types]_vars

\* C16 as it is stated: the tags of the columns never change while the
\* query object lives.
C16_TagsNeverChange ==
    /\ []CellsCastUnderTags
    /\ [][(qry.pc = "alive" /\ qry'.pc = "alive" /\ qry.col_types # <<>>
           /\ qry'.col_types # <<>>) => qry'.col_types = qry.col_types]_vars

\* A row of a bytea and a json column that got their tags before bytea
\* was set to escaped and a JSON decoder was set: the cells are cast as
\* Bytea and as Text, not as get_type would type the columns now.
C16_Witness ==
    /\ qry.pc = "alive"
    /\ qry.ret = "tuple"
    /\ qry.col_types = <<PYGRES_BYTEA, PYGRES_TEXT>>
    /\ get_col_types(qry.result, qry.num_fields) = <<PYGRES_TEXT, PYGRES_JSON>>
    /\ qry.value = PyTuple(<<PyUnhex(<< <<"6", "1">> >>), PyText(<<"1">>)>>)

(***************************************************************************)
(* C17: a NULL is never handed to a caster.  A NULL cell of a result gives *)
(* None and no call of a caster, of the cast hook or of the JSON decoder   *)
(* is made for it; in a returned list the typed casts, or the calls of the *)
(* external callable, are as many as the elements that are not None, and   *)
(* a NULL element is None; for a NULL field of a record the callable is    *)
(* neither looked up nor called; cast_hstore casts each key and each       *)
(* value that is not NULL, and nothing else.                               *)
(***************************************************************************)
\* How many entries of a sequence are not None.
RECURSIVE CountValues(_)
CountValues(q) ==
    IF q = <<>> THEN 0
    ELSE (IF Head(q) = PyNone THEN 0 ELSE 1) + CountValues(Tail(q))

NullCellNotCast ==
    /\ \A k \in 1..Len(qry.calls) :
          ~PQgetisnull(qry.result, qry.calls[k].row, qry.calls[k].col)
    /\ qry.ret = "list" =>
          \A r \in 1..Len(ReturnedRows) : \A j \in 1..Len(qry.col_types) :
              PQgetisnull(qry.result, r - 1, j - 1) =>
                  ReturnedRows[r].tuple[j] = PyNone
    /\ qry.ret = "tuple" =>
          \A j \in 1..Len(qry.col_types) :
              (qry.value.tuple[j] = PyNone)
                  <=> \A k \in 1..Len(qry.calls) : qry.calls[k].col # j - 1

NullElementNotCast ==
    (ArrayDone /\ arr.ret = "list") =>
        /\ arr.type # 0 => /\ arr.ncast = CountValues(Leaves(ArrayResult))
                           /\ arr.calls = <<>>
        /\ (arr.type = 0 /\ arr.cast # NULLPTR) =>
              /\ Len(arr.calls) = CountValues(Leaves(ArrayResult))
              /\ arr.ncast = 0
        /\ ArrayRefLoose.ok =>
              \A i \in 1..Len(Leaves(ArrayRefLoose.val)) :
                  RefIsNull(Leaves(ArrayRefLoose.val)[i]) =>
                      Leaves(ArrayResult)[i] = PyNone

NullFieldNotCast ==
    (RecordDone /\ rec.ret = "tuple" /\ RecordRef.ok) =>
        /\ \A k \in 1..Len(RecordRef.val) :
              RecordRef.val[k].null =>
                  rec.value[k] = PyNone /\ (k - 1) \notin rec.reads
        /\ Len(rec.calls) =
              Cardinality({k \in 1..Len(RecordRef.val) :
                              /\ ~RecordRef.val[k].null
                              /\ RecordCastOf(k) # PyNone})

NullValueNotCast ==
    (HstoreDone /\ hs.ret = "dict" /\ HstoreRef.ok) =>
        /\ hs.ncast =
              Len(HstoreRef.val)
                  + Cardinality({k \in 1..Len(HstoreRef.val) :
                                    ~IsAnyCaseNull(HstoreRef.val[k].val)})
        /\ \A k \in HstoreLastPairs :
              IsAnyCaseNull(HstoreRef.val[k].val) => HstoreValueOf(k) = PyNone

C17_NullNeverCast ==
    /\ NullCellNotCast
    /\ NullElementNotCast
    /\ NullFieldNotCast
    /\ NullValueNotCast

\* The row (None, 3) of a result with a point and an int8 column and the
\* cast hook set: the NULL cell is None, and the only call is that of the
\* caster for the second cell.
C17_Witness ==
    /\ qry.pc = "alive"
    /\ qry.cast_hook = "hook"
    /\ qry.ret = "tuple"
    /\ PQftype(qry.result, 0) = "POINTOID"
    /\ qry.value = PyTuple(<<PyNone, PyInt(3)>>)
    /\ qry.calls = <<[f |-> "caster", arg |-> PyBytes(<<"3">>), row |-> 1,
                      col |-> 1]>>

(***************************************************************************)
(* The money values of the specification: what is kept of the text of a    *)
(* money value, and the text of the money value of a result with one       *)
(* cell, which is the value or an array of one quoted value.               *)
(***************************************************************************)
RECURSIVE MoneyKept(_, _)
MoneyKept(q, point) ==
    IF q = <<>> THEN <<>>
    ELSE (CASE IsDigit(Head(q)) -> <<Head(q)>>
            [] ~IsDigit(Head(q)) /\ Head(q) = point -> <<".">>
            [] ~IsDigit(Head(q)) /\ Head(q) # point /\ Head(q) \in {"(", "-"} ->
                  <<"-">>
            [] OTHER -> <<>>) \o MoneyKept(Tail(q), point)

MoneyIsArray == qry.col_types[1] >= PYGRES_ARRAY

MoneyText ==
    IF MoneyIsArray
    THEN SubSeq(PQgetvalue(qry.result, 0, 0), 3,
                Len(PQgetvalue(qry.result, 0, 0)) - 2)
    ELSE PQgetvalue(qry.result, 0, 0)

\* The money value cast as the specification has it.
MoneyExpected ==
    CHOOSE r \in {cast_unsized_simple(kept, PYGRES_DECIMAL) :
                     kept \in {MoneyKept(MoneyText, mod.decimal_point)}} : TRUE

\* A method has cast the cell of a result whose column has the tag Money.
MoneyWasCast ==
    /\ qry.pc = "alive"
    /\ qry.col_types # <<>>
    /\ qry.col_types[1] % PYGRES_ARRAY = PYGRES_MONEY
    /\ qry.ret \in {"tuple", "list", "NULL"}
    /\ qry.exc # "IndexError"

\* The cell is what the specification has, or the call has failed as the
\* Decimal cast fails.
MoneyAsExpected ==
    MoneyWasCast =>
        \E r \in {MoneyExpected} :
            IF r.ok
            THEN \E cell \in {IF MoneyIsArray THEN PyList(<<r.obj>>) ELSE r.obj} :
                    \/ qry.ret = "tuple" /\ qry.value = PyTuple(<<cell>>)
                    \/ /\ qry.ret = "list"
                       /\ qry.value = PyList(<<PyTuple(<<cell>>)>>)
            ELSE qry.ret = "NULL" /\ qry.exc = r.exc

(***************************************************************************)
(* C18: a money value is cast as the Decimal cast of what is kept of its   *)
(* text: the digits, the decimal point of the module as a point, a left    *)
(* parenthesis or a minus sign as a minus sign, in their order.  This is   *)
(* stated of the state after each call of a method of the query object.    *)
(***************************************************************************)
C18_MoneyCastAsDecimal == [][qry' # qry => MoneyAsExpected']_vars

\* The same for the money values that are no array elements: these are
\* cast by cast_unsized_simple.
C18_MoneyCellCastAsDecimal ==
    [][qry' # qry => (MoneyAsExpected \/ (MoneyWasCast /\ MoneyIsArray))']_vars

(***************************************************************************)
(* The text values that cannot be decoded: the result has one cell, its    *)
(* column has a text tag, the bytes of the cell are not text in the        *)
(* encoding of the connection, and a method has cast the cell.             *)
(***************************************************************************)
UndecodableWasCast(tags) ==
    /\ qry.pc = "alive"
    /\ qry.col_types # <<>>
    /\ qry.col_types[1] \in tags
    /\ PQntuples(qry.result) = 1
    /\ ~PQgetisnull(qry.result, 0, 0)
    /\ ~Decodable(PQgetvalue(qry.result, 0, 0), qry.encoding)
    /\ qry.ret \in {"tuple", "list", "NULL"}
    /\ qry.exc # "IndexError"

\* The call fails with the error of the decoding and returns no value.
CastFailedUndecoded == qry.ret = "NULL" /\ qry.exc = "UnicodeDecodeError"

(***************************************************************************)
(* C19: when the bytes of a text value cannot be decoded in the encoding   *)
(* of the connection, the cast fails with the encoding error and returns   *)
(* no value.  Stated of the cells with the tag Text and the tag Json, the  *)
(* two tags whose values cast_sized_text decodes.                          *)
(***************************************************************************)
C19_UndecodableTextFails ==
    UndecodableWasCast({PYGRES_TEXT, PYGRES_JSON}) => CastFailedUndecoded

\* The same of the cells with the tag Json alone (lines 242-250).
C19_UndecodableJsonFails ==
    UndecodableWasCast({PYGRES_JSON}) => CastFailedUndecoded

\* The row that a text cell of undecodable bytes gives: the bytes, with
\* the encoding error left set.
C19_BytesReturned ==
    /\ UndecodableWasCast({PYGRES_TEXT})
    /\ qry.ret = "tuple"
    /\ qry.value = PyTuple(<<PyBytes(<<"a", HighByte>>)>>)
    /\ qry.exc = "UnicodeDecodeError"

(***************************************************************************)
(* The calls that the specification has for pg.cast_array() with a         *)
(* callable: one for each leaf of the literal that is not NULL, from left  *)
(* to right through all the levels, with the decoded text of the leaf.     *)
(***************************************************************************)
LeafIsValue(leaf) == ~RefIsNull(leaf)

LeafArgument(leaf) ==
    IF arr.encoding # pg_encoding_ascii /\ Decodable(leaf.txt, arr.encoding)
    THEN PyText(leaf.txt) ELSE PyBytes(leaf.txt)

ExternalExpected ==
    LET leaves == SelectSeq(Leaves(ArrayRefLoose.val), LeafIsValue)
    IN  [k \in 1..Len(leaves) |-> LeafArgument(leaves[k])]

IsPrefixOf(a, b) == Len(a) <= Len(b) /\ a = SubSeq(b, 1, Len(a))

ExternalCall == arr.call.type = 0 /\ arr.call.cast # NULLPTR

(***************************************************************************)
(* C20: in one call of cast_array the two ways of casting never mix.  With *)
(* a type tag the external callable is never called; without a tag no      *)
(* element is cast by the built-in casts, and the callable, when there is  *)
(* one, is called exactly once for each leaf that is not NULL, from left   *)
(* to right, at every level of nesting and with the same delimiter; while  *)
(* the call runs or when it fails the calls made are the first of these.   *)
(***************************************************************************)
C20_StrategiesNeverMix ==
    /\ arr.call.type # 0 => arr.calls = <<>>
    /\ arr.call.type = 0 => arr.ncast = 0 /\ arr.hooks = <<>>
    /\ arr.call.cast = NULLPTR => arr.calls = <<>>
    /\ (ExternalCall /\ ArrayRefLoose.ok) =>
          IF ArrayDone /\ arr.ret = "list" THEN arr.calls = ExternalExpected
          ELSE IsPrefixOf(arr.calls, ExternalExpected)

\* {{a b,"NULL"},{",",\}}} with the callable tag has given four calls, and
\* {{1,null},{NULL,2}} with the callable int two calls.
C20_Witness ==
    /\ ArrayDone
    /\ ExternalCall
    /\ arr.ret = "list"
    /\ ArrayRefLoose.depth = 2
    /\ \/ /\ arr.call.cast = "tag"
          /\ arr.calls = <<PyText(<<"a", " ", "b">>), PyText(<<"N", "U", "L", "L">>),
                           PyText(<<",">>), PyText(<<"}">>)>>
       \/ /\ arr.call.cast = "int"
          /\ arr.calls = <<PyText(<<"1">>), PyText(<<"2">>)>>
          /\ ArrayResult = PyList(<<PyList(<<PyInt(1), PyNone>>),
                                    PyList(<<PyNone, PyInt(2)>>)>>)

(***************************************************************************)
(* The calls that the specification has for pg.cast_record() with          *)
(* callables: for each of the first n fields that is not None and whose    *)
(* callable is not None, one call of that callable with the text of the    *)
(* field, in the order of the fields.                                      *)
(***************************************************************************)
RECURSIVE RecordExpectedCalls(_)
RecordExpectedCalls(n) ==
    IF n = 0 THEN <<>>
    ELSE RecordExpectedCalls(n - 1)
         \o (IF RecordRef.val[n].null \/ RecordCastOf(n) = PyNone THEN <<>>
             ELSE RecordExpected(RecordRef.val[n], n).calls)

RecordCastable(n) ==
    \A k \in 1..n : RecordExpected(RecordRef.val[k], k).ok

\* The second argument of pg.cast_record() is a sequence, of so many
\* entries at least.
SequenceSupplied(least) ==
    /\ "tuple" \in DOMAIN rec.cast_obj
    /\ Len(rec.cast_obj.tuple) >= least

\* With a sequence of at least `least` entries: callable i for field i, and
\* ValueError when the literal has not as many fields as the sequence has
\* entries.  With one callable: the callable for every field.
RecordCallablesApplied(least) ==
    (/\ RecordDone
     /\ rec.call.delim \notin {"(", ")", "\\"}
     /\ RecordRef.ok)
    => LET fs == RecordRef.val
           n == Len(rec.cast_obj.tuple)
           m == IF Len(fs) < n THEN Len(fs) ELSE n
       IN  /\ (SequenceSupplied(least) /\ Len(fs) = n /\ RecordCastable(n))
              => /\ rec.ret = "tuple"
                 /\ rec.value = [k \in 1..n |-> RecordExpected(fs[k], k).obj]
                 /\ rec.calls = RecordExpectedCalls(n)
           /\ (SequenceSupplied(least) /\ Len(fs) # n /\ RecordCastable(m))
              => /\ rec.ret = "NULL"
                 /\ rec.exc = "ValueError"
                 /\ rec.calls = RecordExpectedCalls(m)
           /\ ("callable" \in DOMAIN rec.cast_obj /\ RecordCastable(Len(fs)))
              => /\ rec.ret = "tuple"
                 /\ rec.value = [k \in 1..Len(fs) |-> RecordExpected(fs[k], k).obj]
                 /\ rec.calls = RecordExpectedCalls(Len(fs))

(***************************************************************************)
(* C21: in cast_record without type tags, with a sequence of callables     *)
(* callable i is applied to field i only, an entry None leaves its field   *)
(* as text, and a literal whose number of fields is not the length of the  *)
(* sequence fails with ValueError; with one callable, it is applied to     *)
(* every field.  Stated of the literals of the grammar whose fields the    *)
(* callables accept, and of every sequence, the empty one included.        *)
(***************************************************************************)
C21_CallablesByPosition == RecordCallablesApplied(0)

\* C21 as amended: the same of the sequences that are not empty.
C21_CallablesOfNonEmptySequence == RecordCallablesApplied(1)

\* (1,NULL,1) with (int, tag, None) has given (1, tag('NULL'), '1') with
\* one call of int and one call of tag.
C21_Witness ==
    /\ RecordDone
    /\ rec.str = <<"(", "1", ",", "N", "U", "L", "L", ",", "1", ")">>
    /\ rec.cast_obj = PyTuple(<<PyCallable("int"), PyCallable("tag"), PyNone>>)
    /\ rec.ret = "tuple"
    /\ rec.value[1] = PyInt(1)
    /\ rec.value[3] = PyText(<<"1">>)
    /\ rec.calls = <<[f |-> "int", arg |-> PyText(<<"1">>)],
                     [f |-> "tag", arg |-> PyText(<<"N", "U", "L", "L">>)]>>

\* (1,1) with an empty sequence has given ('1', '1').
C21_EmptySequenceAccepted ==
    /\ RecordDone
    /\ rec.cast_obj = PyTuple(<<>>)
    /\ rec.str = <<"(", "1", ",", "1", ")">>
    /\ rec.ret = "tuple"
    /\ rec.value = <<PyText(<<"1">>), PyText(<<"1">>)>>

(***************************************************************************)
(* C25: a large object follows an open/close protocol under every sequence *)
(* of calls.  A call of open has succeeded only when the object was        *)
(* closed; a call of close, read, write, seek, tell or size only when it   *)
(* was open; a call of export or unlink only when it was closed; a call    *)
(* that has failed has left the descriptor and the oid as they were; and   *)
(* every call made after a successful unlink, when the oid is 0, fails.    *)
(***************************************************************************)
LargeSucceeded == lo.ret # "NULL"

C25_LargeProtocol ==
    lo.pc = "alive" =>
        /\ (lo.op = "open" /\ LargeSucceeded) => lo.pre_fd < 0
        /\ (lo.op \in {"close", "read", "write", "seek", "tell", "size"}
            /\ LargeSucceeded) => lo.pre_fd >= 0
        /\ (lo.op \in {"export", "unlink"} /\ LargeSucceeded) => lo.pre_fd < 0
        /\ ~LargeSucceeded => (lo.lo_fd = lo.pre_fd /\ lo.lo_oid = lo.pre_oid)
        /\ (lo.op # "new" /\ lo.pre_oid = 0) => (~LargeSucceeded /\ lo.lo_oid = 0)
        /\ (lo.op = "unlink" /\ LargeSucceeded) => lo.lo_oid = 0

\* A call of open made after a successful unlink has failed for the oid
\* that is null.
C25_Witness ==
    /\ lo.pc = "alive"
    /\ conn.cnx # NULLPTR
    /\ lo.op = "open"
    /\ lo.pre_oid = 0
    /\ lo.lo_fd = -1
    /\ lo.ret = "NULL"
    /\ lo.exc = "IntegrityError"

(***************************************************************************)
(* C22: after close() has been called on a connection, every later         *)
(* operation on the connection object, on its query object and on its      *)
(* large object fails, and a second close() fails with 'Connection already *)
(* closed'.  Stated of every step taken when the connection is closed.     *)
(***************************************************************************)
ClosedRefusesConnection ==
    conn' # conn =>
        /\ conn'.ret = "NULL"
        /\ conn'.op = "close" =>
              (conn'.exc = "InternalError"
               /\ conn'.err = "Connection already closed")

ClosedRefusesQuery == qry' # qry => qry'.ret = "NULL"

ClosedRefusesLarge == lo' # lo => lo'.ret = "NULL"

C22_ClosedMeansUnusable ==
    [][conn.cnx = NULLPTR =>
          (ClosedRefusesConnection /\ ClosedRefusesQuery /\ ClosedRefusesLarge)]_vars

\* The part of it that the code keeps: on a closed connection no method
\* is found but close, close fails with its message, a method that checks
\* the connection fails, and every method of the large object fails.
C22_ClosedRefusesLookupAndLarge ==
    [][conn.cnx = NULLPTR =>
          /\ ClosedRefusesLarge
          /\ conn' # conn =>
                /\ conn'.ret \in {"NULL", "object"}
                /\ conn'.ret = "object" => conn'.op = "get_cast_hook"
                /\ conn'.op = "close" =>
                      (conn'.exc = "InternalError"
                       /\ conn'.err = "Connection already closed")]_vars

(***************************************************************************)
(* A call of one() on a query object that holds a result, and what the     *)
(* specification has for it: the row under the cursor and the cursor       *)
(* moved by one, or None and the cursor left, when the cursor is at the    *)
(* end.  Row k of the results explored holds the number k + 1.             *)
(***************************************************************************)
OneIsCalled ==
    /\ qry.pc = "alive"
    /\ qry.fetched >= 1
    /\ \E junk \in Junk : qry' = query_one(qry, junk)

OneReturnsNextRow ==
    IF qry.current_row < qry.max_row
    THEN /\ qry'.ret = "tuple"
         /\ qry'.value = PyTuple(<<PyInt(qry.current_row + 1)>>)
         /\ qry'.current_row = qry.current_row + 1
    ELSE /\ qry'.ret = "None"
         /\ qry'.current_row = qry.current_row

FreshCursorAtStart == qry.ret = "query" => qry.current_row = 0

C23_SecondRowFirst ==
    /\ qry.pc = "alive"
    /\ qry.async = 1
    /\ qry.fetched = 2
    /\ qry.ret = "tuple"
    /\ qry.current_row = 2
    /\ qry.value = PyTuple(<<PyInt(2)>>)
    /\ qry.pending = <<>>

(***************************************************************************)
(* The calls of a query object that go through _get_async_result, those    *)
(* that do not keep the result and the one that keeps it, and what a call  *)
(* takes from the results that the connection has to hand out.             *)
(***************************************************************************)
NonKeepingCall ==
    /\ qry.pc = "alive"
    /\ \/ \E junk \in Junk :
             \/ qry' = query_one(qry, junk)
             \/ qry' = query_single(qry, junk)
             \/ qry' = query_getresult(qry, junk)
             \/ qry' = query_scalarresult(qry, junk)
             \/ \E i \in -1..3 : qry' = query_getitem(qry, i, junk)
       \/ qry' = query_iter(qry)

KeepingCall ==
    /\ qry.pc = "alive"
    /\ qry' = query_onenamed(qry)

PullsOne ==
    IF qry.pending = <<>>
    THEN /\ qry'.pending = <<>>
         /\ qry'.result = NullResult
         /\ qry'.fetched = qry.fetched
    ELSE /\ qry'.pending = Tail(qry.pending)
         /\ qry'.result = Head(qry.pending)
         /\ qry'.fetched = qry.fetched + 1

PullsNone ==
    /\ qry'.pending = qry.pending
    /\ qry'.result = qry.result
    /\ qry'.fetched = qry.fetched

C27_CursorWithinRows ==
    qry.pc = "alive" =>
        /\ 0 <= qry.current_row
        /\ qry.current_row <= qry.max_row

\* The cursor of a query object of send_query stands behind the rows of
\* the result that one() has fetched.
C27_CursorBehindRows ==
    /\ qry.pc = "alive"
    /\ qry.async = 1
    /\ qry.fetched = 2
    /\ qry.current_row > qry.max_row
    /\ qry.ret = "None"

(***************************************************************************)
(* C26: for every input byte string, empty, blank-only and truncated ones  *)
(* such as an unterminated quoted element included, the cursor of          *)
(* cast_array never moves past the end of the input and no byte at or      *)
(* beyond the end of the input is read.                                    *)
(***************************************************************************)
C26_CursorWithinInput ==
    arr.pc # "idle" =>
        /\ arr.s <= End(arr)
        /\ arr.hi < End(arr)

\* The scan of a quoted element that was cut before its closing quote
\* has stepped over the end and read the bytes that follow it.
C26_UnterminatedQuoteOverread ==
    /\ arr.pc # "idle"
    /\ Len(arr.str) >= 2
    /\ arr.str[Len(arr.str) - 1] = "\""
    /\ arr.str[Len(arr.str)] = "1"
    /\ arr.hi > End(arr)

(***************************************************************************)
(* C30: at every step of cast_array the nesting level satisfies            *)
(* 0 <= level <= depth-1 <= 15, where depth counts the opening braces, so  *)
(* the 16-slot stack of enclosing lists is never indexed out of range and  *)
(* a closing brace never pops an empty stack (the stack holds level        *)
(* lists, the outermost one first), and a successful return happens only   *)
(* at level 0 with the outermost list.                                     *)
(***************************************************************************)
C30_LevelWithinStack ==
    /\ (arr.pc \in {"loop", "end"} \/ arr.ret = "list") =>
          /\ 0 <= arr.level
          /\ arr.level <= arr.depth
          /\ arr.depth <= MAX_ARRAY_DEPTH - 1
          /\ Len(arr.stack) = arr.level
          /\ arr.level > 0 => arr.stack[1] = 1
          /\ arr.level = 0 => arr.result = 1
    /\ arr.ret = "list" =>
          /\ arr.level = 0
          /\ arr.stack = <<>>
          /\ arr.result = 1

\* An array of sixteen levels is parsed at its innermost level, with the
\* fifteen enclosing lists on the stack.
C30_Witness ==
    /\ arr.pc = "loop"
    /\ arr.depth = MAX_ARRAY_DEPTH - 1
    /\ arr.level = arr.depth
    /\ Len(arr.stack) = MAX_ARRAY_DEPTH - 1

\* An array of two levels was returned after its subarrays were closed.
C30_NestedReturned ==
    /\ arr.ret = "list"
    /\ arr.depth = 1
    /\ arr.level = 0
    /\ Len(arr.heap) >= 3

(***************************************************************************)
(* C28: after any sequence of execute, fetch, movefirst, movelast,         *)
(* movenext and moveprev on a source object, a result with zero rows       *)
(* included, the row cursor satisfies 0 <= current_row <= max_row and      *)
(* fetch never reads a row outside 0..max_row-1.                           *)
(***************************************************************************)
C28_SourceCursorWithinRows ==
    (source.pc = "alive" /\ ~source.result.null
        /\ source.result_type = RESULT_DQL) =>
        /\ 0 <= source.current_row
        /\ source.current_row <= source.max_row
        /\ \A i \in 1..Len(source.reads) :
              source.reads[i] \in 0..(source.max_row - 1)

\* movelast() on a result of no rows has set the cursor before the first
\* row.
C28_CursorBeforeFirstRow ==
    /\ source.pc = "alive"
    /\ source.result_type = RESULT_DQL
    /\ source.max_row = 0
    /\ source.current_row = -1
    /\ source.op = "movelast"

\* fetch() after it has asked for row -1 of a result of no rows.
C28_RowBeforeFirstRead ==
    /\ source.pc = "alive"
    /\ source.op = "fetch"
    /\ source.max_row = 0
    /\ source.reads = <<-1>>

\* Both casters were called with the content and the tag.
SimpleBothCalled ==
    /\ simple.pc = "args"
    /\ simple.sized # NoOutcome
    /\ simple.unsized # NoOutcome

SimpleSameValue ==
    /\ simple.sized.ok = simple.unsized.ok
    /\ simple.sized.obj = simple.unsized.obj
    /\ simple.sized.exc = simple.unsized.exc

(***************************************************************************)
(* C29: for every simple tag (Int, Long, Float, Decimal, Money, Bool),     *)
(* every cast configuration and every content of at most 63 bytes without  *)
(* an embedded NUL, cast_sized_simple and cast_unsized_simple return the   *)
(* same value.                                                             *)
(***************************************************************************)
C29_SizedEqualsUnsized == SimpleBothCalled => SimpleSameValue

\* The same but for money values cast while no decimal type is set.
C29_SizedEqualsUnsizedButMoneyAsFloat ==
    (SimpleBothCalled
        /\ ~(simple.type = PYGRES_MONEY /\ mod.decimal = NULLPTR))
    => SimpleSameValue

\* The two casters differ on a money value while no decimal type is set.
C29_MoneyAsFloatDiffers ==
    /\ SimpleBothCalled
    /\ simple.type = PYGRES_MONEY
    /\ mod.decimal = NULLPTR
    /\ simple.s = <<"$", "1">>
    /\ simple.unsized.ok
    /\ simple.sized # simple.unsized

====
